---- MODULE Spec2Model ----
(***************************************************************************)
(* Reliability core of the social-media publishing dashboard:              *)
(*   RetryManager   (services/RetryManager.ts,   src/unnamed/part_005)     *)
(*   RateLimiter    (services/RateLimiter.ts,    src/unnamed/part_003)     *)
(*   EmailMonitor   (services/EmailMonitor.ts,   src/unnamed/part_004)     *)
(*   ReportScheduler(src/src/services/analytics/ReportSchedulerDB.ts)      *)
(*   PostPublisher  (services/PostPublisher.ts,  src/unnamed/part_002)     *)
(*                                                                         *)
(* Time is in milliseconds unless said otherwise.  The document store,     *)
(* the mail transport, the webhook and the platform HTTP clients are       *)
(* external: each call to them either completes or throws, chosen by the   *)
(* environment.                                                            *)
(***************************************************************************)
EXTENDS Integers, Sequences, FiniteSets, TLC

VARIABLES
  now,            \* Date.now(), ms
  \* ---- RetryManager.retryOperation: one call ----
  platform,       \* the platform argument
  attempt,        \* loop variable `attempt`
  lastError,      \* <<>> (null) or <<error>>
  retryPc,        \* position of the call
  opCalls,        \* number of invocations of operation() so far
  opLog,          \* every finished invocation: <<>> resolved, <<e>> threw e
  delays,         \* argument of every this.delay(ms) call, in order
  postDoc,        \* the document posts/{postId}
  retryLogs,      \* the local array `retryLogs` of logRetryAttempt
  storeFault,     \* TRUE once a store call of this run has thrown
  retryResult,    \* <<>> or <<how the call settled: a value, or a throw>>
  \* ---- RetryManager.logRetryAttempt, several calls in flight ----
  postLogs,       \* field retryLogs of each document posts/{postId}
  logWriters,     \* the retry loops: post, position, attempt, local array
  \* ---- RateLimiter ----
  rate_limits,    \* collection rate_limits: category -> record
  rlConfig,       \* the RateLimitConfig of the sequential caller
  rlCalls,        \* every finished isRateLimited call, in order
  rlWorkers,      \* concurrent isRateLimited calls: position and locals
  rlStatus,       \* <<>> or <<the last getRateLimitStatus answer and what
                  \*   isRateLimited answers in the same state>>
  \* ---- EmailMonitor ----
  alertConfigDoc, \* email_monitor_config/{userId}
  alerts,         \* collection email_monitor_alerts, in creation order
  alertPc,        \* position of the running createAlert
  alertCall,      \* locals of the running createAlert
  sent,           \* channel dispatches handed to the notifier / webhook
  ticks,          \* number of clock advances so far
  breaches,       \* number of createAlert calls of this run
  alertWarns,     \* number of `Alert rate limit exceeded` warnings logged
  resolves,       \* number of resolveAlert calls of this run
  alertBudget,    \* the calls and clock steps the run is let to make
  evals,          \* concurrent createAlert calls: position and locals
  \* ---- ReportScheduler.calculateNextRun ----
  schedule,       \* the ReportSchedule argument
  nextRun,        \* <<>> or <<returned instant>>, in minutes
  calcAt,         \* <<>> or <<the instant `now` of that calculation>>
  \* ---- ReportScheduler.calculateNextRun, the weekly loop step by step ----
  loopPc,         \* position of the call: idle, while, returned
  loopNext,       \* the Date `next`: <<instant>>, or <<>> for Invalid Date
  \* ---- ReportScheduler: one schedule id, its timer and its runs ----
  reportSchedules, \* the document reportSchedules/{id}: <<>> or <<schedule>>
  schedules,      \* the Map ReportScheduler.schedules at id: <<>> or <<handle>>
  timeouts,       \* the pending setTimeout timers of the process
  nextHandle,     \* the handle the next setTimeout returns
  generations,    \* the generateAndSendReport calls in flight
  updates,        \* the user's updateSchedule call in flight: <<>> or <<s>>
  fired,          \* every timer fire so far, in order
  lastEdit,       \* <<>> or <<the last completed user edit: its argument
                  \*   and the handle of the timer it has set (0: none)>>
  editCount,      \* number of user updateSchedule calls so far
  advances,       \* number of clock advances so far
  loads,          \* initializeSchedules awaiting its query: <<>> or
                  \*   <<the list of schedules the query returns>>
  deletePc,       \* deleteSchedule of the id: "idle", "deleteDoc", "done"
  lifeCount,      \* number of deleteSchedule and initializeSchedules calls
  \* ---- PostPublisher.publishPost ----
  platforms,      \* the platforms argument
  pubIdx,         \* index of the next platform of the for loop
  results,        \* the local `results`
  pubPc,          \* position of the call
  clientPlan,     \* what each platform's API would answer to a publish
  postStatus,     \* field status of posts/{postId}
  \* ---- EmailWorker.processDigestNotifications ----
  preferences,    \* collection notification_preferences: user -> <<>> or <<p>>
  workerAlerts,   \* collection alerts: the set of [userId, timestamp]
  digestCalls,    \* every addDoc call of queueDigestEmail so far
  email_queue,    \* the digest emails stored in collection email_queue
  digestOps,      \* number of steps of this run
  \* ---- EmailWorker.processRegularNotifications and processEmail ----
  emailDocs,      \* the alert-notification documents of email_queue:
                  \*   email id -> <<>> or <<[status, retryCount]>>
  wPasses,        \* the processQueue passes in flight, per slot
  sendMailCalls,  \* every transporter.sendMail call so far, in order
  passCount,      \* number of processQueue passes started so far
  \* ---- publishScheduledPosts ----
  cronPosts,      \* collection posts: post id -> [status, scheduledFor]
  cronRuns,       \* the runs of the function in flight, per slot
  publishLog,     \* every completed platform loop of publishPost, in order
  lastCronAt      \* the instant of the last scheduler tick served

logVars   == <<postLogs, logWriters>>
retryVars == <<platform, attempt, lastError, retryPc, opCalls, opLog, delays,
               postDoc, retryLogs, storeFault, retryResult, logVars>>
rateVars  == <<rate_limits, rlConfig, rlCalls, rlWorkers, rlStatus>>
evalVars  == <<evals>>
alertVars == <<alertConfigDoc, alerts, alertPc, alertCall, sent, ticks,
               breaches, alertWarns, resolves, alertBudget, evalVars>>
lifeVars  == <<loads, deletePc, lifeCount>>
timerVars == <<reportSchedules, schedules, timeouts, nextHandle, generations,
               updates, fired, lastEdit, editCount, advances, lifeVars>>
loopVars  == <<loopPc, loopNext>>
schedVars == <<schedule, nextRun, calcAt, timerVars, loopVars>>
workerVars == <<emailDocs, wPasses, sendMailCalls, passCount>>
cronVars  == <<cronPosts, cronRuns, publishLog, lastCronAt>>
queueVars == <<workerVars, cronVars>>
digestVars == <<preferences, workerAlerts, digestCalls, email_queue, digestOps,
                queueVars>>
pubVars   == <<platforms, pubIdx, results, pubPc, clientPlan, postStatus,
               digestVars>>
vars == <<now, retryVars, rateVars, alertVars, schedVars, pubVars>>

Min(a, b) == IF a <= b THEN a ELSE b

RECURSIVE Pow(_, _)
Pow(b, e) == IF e = 0 THEN 1 ELSE b * Pow(b, e - 1)

Platforms == {"facebook", "instagram", "twitter", "linkedin"}

\* The users of the email worker.
Users == {"u1", "u2"}

\* The documents of collection posts that concurrent retry loops log to,
\* and the loops (two uploads of Promise.all, or two publish calls).
LogPosts == {"post1", "post2"}
Writers == {1, 2}

(***************************************************************************)
(* Idle values of the parts a specification does not exercise.             *)
(***************************************************************************)
LogIdle ==
  /\ postLogs = [p \in LogPosts |-> <<>>]
  /\ logWriters = [w \in Writers |->
                     [post |-> "post1", pc |-> "idle", attempt |-> 0,
                      retryLogs |-> <<>>]]

\* The concurrent callers of isRateLimited and a caller with no call in
\* flight.
Callers == {1, 2}
IdleCaller == [pc |-> "idle", decision |-> "none", t |-> 0]

\* The concurrent breach evaluations of one user and an evaluation that has
\* not called createAlert.
Evals == {1, 2}
IdleEval == [pc |-> "idle", type |-> "none", cooldown |-> 0]

RetryIdle ==
  /\ platform = "twitter" /\ attempt = 0 /\ lastError = <<>>
  /\ retryPc = "idle" /\ opCalls = 0 /\ opLog = <<>> /\ delays = <<>>
  /\ postDoc = [exists |-> FALSE, hasRetryLogs |-> FALSE, retryLogs |-> <<>>,
                lastRetryAttempt |-> <<>>]
  /\ retryLogs = <<>> /\ storeFault = FALSE /\ retryResult = <<>>
  /\ LogIdle

RateIdle ==
  /\ rate_limits = [c \in {"email", "notification", "alert"} |-> <<>>]
  /\ rlConfig = [type |-> "alert", windowSize |-> 0, maxRequests |-> 0]
  /\ rlCalls = <<>>
  /\ rlWorkers = [w \in Callers |-> IdleCaller]
  /\ rlStatus = <<>>

AlertIdle ==
  /\ alertConfigDoc = <<>> /\ alerts = <<>> /\ alertPc = "idle"
  /\ alertCall = <<>> /\ sent = <<>> /\ ticks = 0 /\ breaches = 0
  /\ alertWarns = 0 /\ resolves = 0
  /\ alertBudget = [ticks |-> 0, breaches |-> 0, resolves |-> 0, ops |-> 0]
  /\ evals = [e \in Evals |-> IdleEval]

SchedIdle ==
  /\ schedule = [frequency |-> "daily", dayOfWeek |-> 0, dayOfMonth |-> 0,
                 time |-> 0]
  /\ nextRun = <<>> /\ calcAt = <<>>
  /\ reportSchedules = <<>> /\ schedules = <<>> /\ timeouts = {}
  /\ nextHandle = 1 /\ generations = {} /\ updates = <<>> /\ fired = <<>>
  /\ lastEdit = <<>> /\ editCount = 0 /\ advances = 0
  /\ loopPc = "idle" /\ loopNext = <<>>
  /\ loads = <<>> /\ deletePc = "idle" /\ lifeCount = 0

Emails == {"e1", "e2"}

Passes == {1, 2}

IdleJob == [pc |-> "none", retryCount |-> <<>>]

IdlePass == [pc |-> "idle", jobs |-> [e \in Emails |-> IdleJob]]

WorkerIdle ==
  /\ emailDocs = [e \in Emails |-> <<>>]
  /\ wPasses = [p \in Passes |-> IdlePass]
  /\ sendMailCalls = <<>> /\ passCount = 0

Posts == {"p1", "p2"}

CronSlots == {1, 2}

IdleCronJob == [pc |-> "none", status |-> "none"]

IdleRun == [pc |-> "idle", from |-> 0, to |-> 0,
            jobs |-> [p \in Posts |-> IdleCronJob]]

CronIdle ==
  /\ cronPosts = [p \in Posts |-> [status |-> "scheduled", scheduledFor |-> 0]]
  /\ cronRuns = [r \in CronSlots |-> IdleRun]
  /\ publishLog = <<>> /\ lastCronAt = -1

QueueIdle == WorkerIdle /\ CronIdle

DigestIdle ==
  /\ preferences = [u \in Users |-> <<>>]
  /\ workerAlerts = {} /\ digestCalls = {} /\ email_queue = {}
  /\ digestOps = 0
  /\ QueueIdle

PubIdle ==
  /\ platforms = <<>> /\ pubIdx = 1
  /\ results = [success |-> <<>>, failed |-> <<>>]
  /\ pubPc = "idle" /\ clientPlan = [p \in Platforms |-> "ok"]
  /\ postStatus = "scheduled"
  /\ DigestIdle

(***************************************************************************)
(* RetryManager                                                            *)
(***************************************************************************)
DEFAULT_RETRY_CONFIG ==
  [maxAttempts |-> 3, initialDelay |-> 1000, maxDelay |-> 30000,
   backoffFactor |-> 2]

PLATFORM_RETRY_CONFIGS_Mut ==
  [p \in Platforms |->
     CASE p = "facebook"  -> [DEFAULT_RETRY_CONFIG EXCEPT !.maxAttempts = 5]
       [] p = "instagram" -> [DEFAULT_RETRY_CONFIG EXCEPT !.maxDelay = 60000]
       [] p = "twitter"   -> DEFAULT_RETRY_CONFIG
       [] p = "linkedin"  -> [DEFAULT_RETRY_CONFIG EXCEPT !.maxAttempts = 5]]

PLATFORM_RETRY_CONFIGS ==
  [p \in Platforms |->
     CASE p = "facebook"  -> [DEFAULT_RETRY_CONFIG EXCEPT !.maxAttempts = 5]
       [] p = "instagram" -> [DEFAULT_RETRY_CONFIG EXCEPT !.maxDelay = 60000]
       [] p = "twitter"   -> DEFAULT_RETRY_CONFIG
       [] p = "linkedin"  -> [DEFAULT_RETRY_CONFIG EXCEPT !.maxAttempts = 4]]

\* The errors an operation is let to throw.  isRetryable is "true", "false"
\* or "undefined" (no boolean flag); statusCode 0 stands for an absent
\* statusCode (both are falsy at part_005:51).
Errors ==
  { [isRetryable |-> "false",     statusCode |-> 503, message |-> "server error"],
    [isRetryable |-> "true",      statusCode |-> 400, message |-> "bad request"],
    [isRetryable |-> "undefined", statusCode |-> 429, message |-> "rate limit"],
    [isRetryable |-> "undefined", statusCode |-> 400, message |-> "rate limit"],
    [isRetryable |-> "undefined", statusCode |-> 0,   message |-> "rate limit"],
    [isRetryable |-> "undefined", statusCode |-> 0,   message |-> "temporary"],
    [isRetryable |-> "undefined", statusCode |-> 0,   message |-> "media processing"],
    [isRetryable |-> "undefined", statusCode |-> 0,   message |-> "server error"],
    [isRetryable |-> "undefined", statusCode |-> 0,   message |-> "bad request"] }

\* String.prototype.includes on the messages of Errors.
Includes(message, sub) ==
  \/ message = sub
  \/ message = "media processing" /\ sub = "processing"

\* error.platform has been set to the platform of the call (part_005:107).
isRetryableError_Mut(error, p) ==
  IF error.statusCode # 0
  THEN error.statusCode \in {408, 429, 500, 502, 503, 504}
  ELSE IF error.isRetryable \in {"true", "false"}
  THEN error.isRetryable = "true"
  ELSE error.message = "rate limit"

isRetryableError(error, p) ==
  IF error.isRetryable \in {"true", "false"}
  THEN error.isRetryable = "true"
  ELSE IF error.statusCode # 0
  THEN error.statusCode \in {408, 429, 500, 502, 503, 504}
  ELSE CASE p = "facebook"  -> Includes(error.message, "temporary")
                               \/ Includes(error.message, "rate limit")
         [] p = "instagram" -> Includes(error.message, "rate limit")
                               \/ Includes(error.message, "media processing")
         [] p = "twitter"   -> Includes(error.message, "rate limit")
                               \/ Includes(error.message, "server error")
         [] p = "linkedin"  -> Includes(error.message, "rate limit")
                               \/ Includes(error.message, "processing")
         [] OTHER           -> FALSE

getNextDelay_Mut(currentAttempt, config) ==
  Min(config.initialDelay * Pow(config.backoffFactor, currentAttempt),
      config.maxDelay)

getNextDelay(currentAttempt, config) ==
  Min(config.initialDelay * Pow(config.backoffFactor, currentAttempt - 1),
      config.maxDelay)

\* part_005:114, the condition of `throw lastError`.
GiveUp_Mut(att, config, error, p) ==
  att = config.maxAttempts

GiveUp(att, config, error, p) ==
  att = config.maxAttempts \/ ~isRetryableError(error, p)

\* part_005:142-151, the array written back by logRetryAttempt.
PushRetryLog_Mut(logs, entry) == <<entry>>

PushRetryLog(logs, entry) == Append(logs, entry)

\* An entry left in the document by an earlier call.
PriorEntry ==
  [platform |-> "linkedin", attempt |-> 2, timestamp |-> 0,
   message |-> "rate limit", code |-> 429]

\* The states a posts/{postId} document is let to start in: absent, present
\* without a retryLogs field, present with an entry of an earlier call.
PostDocs ==
  { [exists |-> FALSE, hasRetryLogs |-> FALSE, retryLogs |-> <<>>,
     lastRetryAttempt |-> <<>>],
    [exists |-> TRUE, hasRetryLogs |-> FALSE, retryLogs |-> <<>>,
     lastRetryAttempt |-> <<>>],
    [exists |-> TRUE, hasRetryLogs |-> TRUE,
     retryLogs |-> << PriorEntry >>,
     lastRetryAttempt |-> << [platform |-> "linkedin", attempt |-> 2,
                              timestamp |-> 0] >>] }

\* A platform string that is no key of PLATFORM_RETRY_CONFIGS; the type
\* Platform is not enforced at run time (next.config.js:8-10) and the
\* platforms of a post come from its stored document.
UnconfiguredPlatform == "tiktok"

\* part_005:99, `PLATFORM_RETRY_CONFIGS[platform]`: <<>> is undefined.
ConfigLookup_Mut(p) ==
  IF p \in DOMAIN PLATFORM_RETRY_CONFIGS THEN << PLATFORM_RETRY_CONFIGS[p] >>
  ELSE << DEFAULT_RETRY_CONFIG >>

ConfigLookup(p) ==
  IF p \in DOMAIN PLATFORM_RETRY_CONFIGS THEN << PLATFORM_RETRY_CONFIGS[p] >>
  ELSE <<>>

\* retryOperation is called: config lookup, attempt = 1, operation() starts.
\* When the lookup gives undefined, the loop condition
\* `attempt <= config.maxAttempts` (part_005:102) throws a TypeError.
RetryOperation ==
  /\ retryPc = "idle"
  /\ \E p \in Platforms \cup {UnconfiguredPlatform} :
       /\ platform' = p
       /\ IF ConfigLookup(p) # <<>>
          THEN /\ opCalls' = 1
               /\ retryPc' = "operation"
               /\ retryResult' = retryResult
          ELSE /\ opCalls' = 0
               /\ retryPc' = "thrown"
               /\ retryResult' =
                    << [kind |-> "throw",
                        error |-> [isRetryable |-> "undefined", statusCode |-> 0,
                                   message |-> "Cannot read properties of undefined"],
                        platform |-> ""] >>
  /\ attempt' = 1
  /\ lastError' = <<>>
  /\ UNCHANGED <<opLog, delays, postDoc, retryLogs, storeFault>>
  /\ UNCHANGED <<now, logVars, rateVars, alertVars, schedVars, pubVars>>

\* `return await operation()` resolves.
OperationSucceeds ==
  /\ retryPc = "operation"
  /\ opLog' = Append(opLog, <<>>)
  /\ retryPc' = "returned"
  /\ retryResult' = << [kind |-> "value"] >>
  /\ UNCHANGED <<platform, attempt, lastError, opCalls, delays, postDoc,
                 retryLogs, storeFault>>
  /\ UNCHANGED <<now, logVars, rateVars, alertVars, schedVars, pubVars>>

\* operation() rejects: the catch block runs up to the getDoc of
\* logRetryAttempt.
OperationFails ==
  /\ retryPc = "operation"
  /\ \E e \in Errors :
       /\ lastError' = <<e>>
       /\ opLog' = Append(opLog, <<e>>)
  /\ retryPc' = "getDoc"
  /\ UNCHANGED <<platform, attempt, opCalls, delays, postDoc, retryLogs,
                 storeFault, retryResult>>
  /\ UNCHANGED <<now, logVars, rateVars, alertVars, schedVars, pubVars>>

\* `throw lastError` (part_005:115, 124): the call rejects with the object
\* the operation threw, on which line 107 has set the property `platform`.
ThrowLastError_Mut(error, p) ==
  [kind |-> "throw",
   error |-> [isRetryable |-> "false", statusCode |-> 0,
              message |-> "retry failed"],
   platform |-> p]

ThrowLastError(error, p) ==
  [kind |-> "throw", error |-> error[1], platform |-> p]

\* The code after `await this.logRetryAttempt(...)`: part_005:113-120.
AfterLog ==
  LET config == ConfigLookup(platform)[1] IN
  IF GiveUp(attempt, config, lastError[1], platform)
  THEN /\ retryPc' = "thrown"
       /\ retryResult' = << ThrowLastError(lastError, platform) >>
       /\ delays' = delays
  ELSE /\ retryPc' = "delay"
       /\ retryResult' = retryResult
       /\ delays' = Append(delays, getNextDelay(attempt, config))

\* The catch block of logRetryAttempt (part_005:161-164): the store error is
\* logged and logRetryAttempt returns; retryOperation goes on.
LogCatch_Mut ==
  /\ retryPc' = "thrown"
  /\ retryResult' = << [kind |-> "throw",
                        error |-> [isRetryable |-> "false", statusCode |-> 0,
                                   message |-> "store unavailable"],
                        platform |-> platform] >>
  /\ delays' = delays

LogCatch == AfterLog

\* getDoc(postRef) of logRetryAttempt completes: the document is absent
\* (return), or the entry is pushed and updateDoc starts; or getDoc throws.
LogGetDoc ==
  /\ retryPc = "getDoc"
  /\ \/ /\ ~postDoc.exists
        /\ AfterLog
        /\ UNCHANGED <<retryLogs, storeFault>>
     \/ /\ postDoc.exists
        /\ retryLogs' =
             PushRetryLog(IF postDoc.hasRetryLogs THEN postDoc.retryLogs
                          ELSE <<>>,
                          [platform |-> platform, attempt |-> attempt,
                           timestamp |-> now,
                           message |-> lastError[1].message,
                           code |-> lastError[1].statusCode])
        /\ retryPc' = "updateDoc"
        /\ UNCHANGED <<delays, storeFault, retryResult>>
     \/ /\ storeFault' = TRUE
        /\ LogCatch
        /\ UNCHANGED retryLogs
  /\ UNCHANGED <<platform, attempt, lastError, opCalls, opLog, postDoc>>
  /\ UNCHANGED <<now, logVars, rateVars, alertVars, schedVars, pubVars>>

\* updateDoc(postRef, {retryLogs, lastRetryAttempt}) completes or throws.
LogUpdateDoc ==
  /\ retryPc = "updateDoc"
  /\ \/ /\ postDoc' = [postDoc EXCEPT
                         !.hasRetryLogs = TRUE,
                         !.retryLogs = retryLogs,
                         !.lastRetryAttempt =
                            << [platform |-> platform, attempt |-> attempt,
                                timestamp |-> now] >>]
        /\ UNCHANGED storeFault
        /\ AfterLog
     \/ /\ storeFault' = TRUE
        /\ UNCHANGED postDoc
        /\ LogCatch
  /\ UNCHANGED <<platform, attempt, lastError, opCalls, opLog, retryLogs>>
  /\ UNCHANGED <<now, logVars, rateVars, alertVars, schedVars, pubVars>>

\* The timer of this.delay(delay) fires: attempt++, the loop condition is
\* tested and operation() starts again (else `throw lastError`, line 124).
Delay ==
  /\ retryPc = "delay"
  /\ now' = now + delays[Len(delays)]
  /\ attempt' = attempt + 1
  /\ IF attempt + 1 <= ConfigLookup(platform)[1].maxAttempts
     THEN /\ opCalls' = opCalls + 1
          /\ retryPc' = "operation"
          /\ retryResult' = retryResult
     ELSE /\ opCalls' = opCalls
          /\ retryPc' = "thrown"
          /\ retryResult' = << ThrowLastError(lastError, platform) >>
  /\ UNCHANGED <<platform, lastError, opLog, delays, postDoc, retryLogs,
                 storeFault>>
  /\ UNCHANGED <<logVars, rateVars, alertVars, schedVars, pubVars>>

InitRetry ==
  /\ now = 0
  /\ platform = "twitter" /\ attempt = 0 /\ lastError = <<>>
  /\ retryPc = "idle" /\ opCalls = 0 /\ opLog = <<>> /\ delays = <<>>
  /\ postDoc \in PostDocs
  /\ retryLogs = <<>> /\ storeFault = FALSE /\ retryResult = <<>>
  /\ LogIdle
  /\ RateIdle /\ AlertIdle /\ SchedIdle /\ PubIdle

NextRetry ==
  \/ RetryOperation
  \/ OperationSucceeds
  \/ OperationFails
  \/ LogGetDoc
  \/ LogUpdateDoc
  \/ Delay

SpecRetry == InitRetry /\ [][NextRetry]_vars

(***************************************************************************)
(* RetryManager.logRetryAttempt called by retry loops that run side by     *)
(* side (SocialMediaAPI.uploadMedia under Promise.all, part_002:17-19, or  *)
(* publish calls for different posts).  Each loop awaits getDoc and then   *)
(* updateDoc; the loops interleave at these awaits.                        *)
(***************************************************************************)
MaxLogAttempts == 2

LogOthersUnchanged ==
  UNCHANGED <<now, platform, attempt, lastError, retryPc, opCalls, opLog,
              delays, postDoc, retryLogs, storeFault, retryResult,
              rateVars, alertVars, schedVars, pubVars>>

\* An attempt of loop w has failed and logRetryAttempt is called.
LogStart ==
  \E w \in Writers :
  /\ LogOthersUnchanged
  /\ logWriters[w].pc = "idle"
  /\ logWriters[w].attempt < MaxLogAttempts
  /\ logWriters' = [logWriters EXCEPT ![w].pc = "getDoc",
                                      ![w].attempt = @ + 1]
  /\ UNCHANGED postLogs

\* getDoc of loop w completes: the entry is pushed on the array read
\* (part_005:142-151) and updateDoc starts; or getDoc throws (catch).
ConcGetDoc ==
  \E w \in Writers :
  /\ LogOthersUnchanged
  /\ logWriters[w].pc = "getDoc"
  /\ \/ logWriters' = [logWriters EXCEPT
          ![w].pc = "updateDoc",
          ![w].retryLogs =
             PushRetryLog(postLogs[logWriters[w].post],
                          [writer |-> w, attempt |-> logWriters[w].attempt])]
     \/ logWriters' = [logWriters EXCEPT ![w].pc = "idle"]
  /\ UNCHANGED postLogs

\* updateDoc(postRef, {retryLogs, ...}) of loop w completes: the field is
\* replaced by the local array (part_005:153-160); or it throws (catch).
ConcUpdateDoc ==
  \E w \in Writers :
  /\ LogOthersUnchanged
  /\ logWriters[w].pc = "updateDoc"
  /\ \/ postLogs' = [postLogs EXCEPT
                       ![logWriters[w].post] = logWriters[w].retryLogs]
     \/ UNCHANGED postLogs
  /\ logWriters' = [logWriters EXCEPT ![w].pc = "idle", ![w].retryLogs = <<>>]

InitRetryLog ==
  /\ now = 0
  /\ platform = "twitter" /\ attempt = 0 /\ lastError = <<>>
  /\ retryPc = "idle" /\ opCalls = 0 /\ opLog = <<>> /\ delays = <<>>
  /\ postDoc = [exists |-> FALSE, hasRetryLogs |-> FALSE, retryLogs |-> <<>>,
                lastRetryAttempt |-> <<>>]
  /\ retryLogs = <<>> /\ storeFault = FALSE /\ retryResult = <<>>
  /\ postLogs = [p \in LogPosts |-> <<>>]
  /\ \E f \in [Writers -> LogPosts] :
       logWriters = [w \in Writers |->
                       [post |-> f[w], pc |-> "idle", attempt |-> 0,
                        retryLogs |-> <<>>]]
  /\ RateIdle /\ AlertIdle /\ SchedIdle /\ PubIdle

NextRetryLog ==
  \/ LogStart
  \/ ConcGetDoc
  \/ ConcUpdateDoc

SpecRetryLog == InitRetryLog /\ [][NextRetryLog]_vars

(***************************************************************************)
(* RateLimiter                                                             *)
(***************************************************************************)
Categories == {"email", "notification", "alert"}

DEFAULT_LIMITS ==
  [c \in Categories |->
     CASE c = "email"        -> [windowSize |-> 3600000, maxRequests |-> 100]
       [] c = "notification" -> [windowSize |-> 300000,  maxRequests |-> 50]
       [] c = "alert"        -> [windowSize |-> 60000,   maxRequests |-> 10]]

\* `config.windowSize || defaultLimit.windowSize` and the same for
\* maxRequests: 0 (or an absent value) selects the category default.
EffectiveLimits(config) ==
  [windowSize  |-> IF config.windowSize # 0 THEN config.windowSize
                   ELSE DEFAULT_LIMITS[config.type].windowSize,
   maxRequests |-> IF config.maxRequests # 0 THEN config.maxRequests
                   ELSE DEFAULT_LIMITS[config.type].maxRequests]

\* The branch isRateLimited takes on the record it has read (<<>>: no
\* document).  windowStart is stored as a Timestamp and read back with
\* toDate(); both keep the millisecond value.
RateDecision_Mut(record, config, t) ==
  LET lim == EffectiveLimits(config) IN
  IF record = <<>> THEN "create"
  ELSE IF t - record[1].windowStart > lim.windowSize THEN "reset"
  ELSE IF record[1].count > lim.maxRequests THEN "limited"
  ELSE "increment"

RateDecision(record, config, t) ==
  LET lim == EffectiveLimits(config) IN
  IF record = <<>> THEN "create"
  ELSE IF t - record[1].windowStart > lim.windowSize THEN "reset"
  ELSE IF record[1].count >= lim.maxRequests THEN "limited"
  ELSE "increment"

\* The document after the setDoc of that branch; `stored` is the document
\* at the time of the write (increment(1) is applied by the store).
RateWrite_Mut(stored, decision, t) ==
  CASE decision \in {"create", "reset"} ->
         << [count |-> 1, windowStart |-> t, lastUpdated |-> t] >>
    [] decision = "increment" ->
         IF stored = <<>>
         THEN << [count |-> 1, lastUpdated |-> t] >>
         ELSE << [stored[1] EXCEPT !.count = @ + 2, !.lastUpdated = t] >>
    [] OTHER -> stored

RateWrite(stored, decision, t) ==
  CASE decision \in {"create", "reset"} ->
         << [count |-> 1, windowStart |-> t, lastUpdated |-> t] >>
    [] decision = "increment" ->
         IF stored = <<>>
         THEN << [count |-> 1, lastUpdated |-> t] >>
         ELSE << [stored[1] EXCEPT !.count = @ + 1, !.lastUpdated = t] >>
    [] OTHER -> stored

\* The value returned from the catch block (part_003:89).
FailOpen_Mut == TRUE

FailOpen == FALSE

\* One whole isRateLimited call on the collection `store` at instant t.
\* fault: "none", "read" (getDoc throws) or "write" (setDoc throws).
isRateLimited(store, config, t, fault) ==
  LET decision == RateDecision(store[config.type], config, t) IN
  IF fault = "read" THEN [store |-> store, limited |-> FailOpen]
  ELSE IF decision = "limited" THEN [store |-> store, limited |-> TRUE]
  ELSE IF fault = "write" THEN [store |-> store, limited |-> FailOpen]
  ELSE [store |-> [store EXCEPT ![config.type] =
                      RateWrite(store[config.type], decision, t)],
        limited |-> FALSE]

Faults == {"none", "read", "write"}

MaxCalls == 4
MaxNow == 3
LimitChoices == {0, 1, 2}

\* A sequential caller invokes isRateLimited with its fixed config.
IsRateLimited ==
  /\ Len(rlCalls) < MaxCalls
  /\ \E fault \in Faults :
       LET r == isRateLimited(rate_limits, rlConfig, now, fault)
           d == RateDecision(rate_limits[rlConfig.type], rlConfig, now)
       IN /\ fault = "write" => d # "limited"
          /\ rate_limits' = r.store
          /\ rlCalls' = Append(rlCalls, [t |-> now, limited |-> r.limited,
                                         fault |-> fault])
  /\ UNCHANGED <<now, rlConfig, rlWorkers, rlStatus>>
  /\ UNCHANGED <<retryVars, alertVars, schedVars, pubVars>>

\* A millisecond passes.
TickMs ==
  /\ now < MaxNow
  /\ now' = now + 1
  /\ UNCHANGED <<retryVars, rateVars, alertVars, schedVars, pubVars>>

InitRate ==
  /\ now = 0
  /\ rate_limits = [c \in Categories |-> <<>>]
  /\ \E c \in Categories, w \in LimitChoices, m \in LimitChoices :
       rlConfig = [type |-> c, windowSize |-> w, maxRequests |-> m]
  /\ rlCalls = <<>>
  /\ rlWorkers = [w \in Callers |-> IdleCaller]
  /\ rlStatus = <<>>
  /\ RetryIdle /\ AlertIdle /\ SchedIdle /\ PubIdle

NextRate ==
  \/ IsRateLimited
  \/ TickMs

SpecRate == InitRate /\ [][NextRate]_vars

(***************************************************************************)
(* RateLimiter.isRateLimited called concurrently on one key: a call is     *)
(* suspended at `await getDoc` and at `await setDoc` (part_003:41-86).     *)
(* The store answers every call here.                                      *)
(***************************************************************************)
\* getDoc of caller w resolves: `now` is taken and the branch is chosen
\* (part_003:41-78); the limited branch returns at once.
RlGetDoc ==
  /\ \E w \in Callers :
       /\ rlWorkers[w].pc = "idle"
       /\ Len(rlCalls)
            + Cardinality({ v \in Callers : rlWorkers[v].pc # "idle" })
              < MaxCalls
       /\ LET d == RateDecision(rate_limits[rlConfig.type], rlConfig, now)
          IN IF d = "limited"
             THEN /\ rlCalls' = Append(rlCalls, [t |-> now, limited |-> TRUE,
                                                 fault |-> "none"])
                  /\ UNCHANGED rlWorkers
             ELSE /\ rlWorkers' = [rlWorkers EXCEPT
                                     ![w] = [pc |-> "setDoc", decision |-> d,
                                             t |-> now]]
                  /\ UNCHANGED rlCalls
  /\ UNCHANGED <<now, rate_limits, rlConfig, rlStatus>>
  /\ UNCHANGED <<retryVars, alertVars, schedVars, pubVars>>

\* setDoc of caller w is applied to the document as it is now, and the
\* call returns false (part_003:50-57, 66-73, 81-86).
RlSetDoc ==
  /\ \E w \in Callers :
       /\ rlWorkers[w].pc = "setDoc"
       /\ rate_limits' = [rate_limits EXCEPT ![rlConfig.type] =
                            RateWrite(@, rlWorkers[w].decision, rlWorkers[w].t)]
       /\ rlCalls' = Append(rlCalls, [t |-> rlWorkers[w].t, limited |-> FALSE,
                                      fault |-> "none"])
       /\ rlWorkers' = [rlWorkers EXCEPT ![w] = IdleCaller]
  /\ UNCHANGED <<now, rlConfig, rlStatus>>
  /\ UNCHANGED <<retryVars, alertVars, schedVars, pubVars>>

InitRateConc ==
  /\ now = 0
  /\ rate_limits = [c \in Categories |-> <<>>]
  /\ \E c \in Categories, w \in LimitChoices, m \in LimitChoices :
       rlConfig = [type |-> c, windowSize |-> w, maxRequests |-> m]
  /\ rlCalls = <<>>
  /\ rlWorkers = [w \in Callers |-> IdleCaller]
  /\ rlStatus = <<>>
  /\ RetryIdle /\ AlertIdle /\ SchedIdle /\ PubIdle

NextRateConc ==
  \/ RlGetDoc
  \/ RlSetDoc
  \/ TickMs

SpecRateConc == InitRateConc /\ [][NextRateConc]_vars

(***************************************************************************)
(* RateLimiter.getRateLimitStatus beside the sequential caller of          *)
(* isRateLimited.                                                          *)
(***************************************************************************)
Max(a, b) == IF a >= b THEN a ELSE b

\* getRateLimitStatus(userId, type) on the collection `store` at instant t
\* (part_003:93-142); fault "read": getDoc throws.
getRateLimitStatus(store, type, t, fault) ==
  LET defaultLimit == DEFAULT_LIMITS[type]
      record == store[type]
  IN IF fault = "read"
     THEN [remaining |-> 0, resetTime |-> t, isLimited |-> TRUE]
     ELSE IF record = <<>> \/ t - record[1].windowStart > defaultLimit.windowSize
     THEN [remaining |-> defaultLimit.maxRequests,
           resetTime |-> t + defaultLimit.windowSize, isLimited |-> FALSE]
     ELSE LET remaining == Max(0, defaultLimit.maxRequests - record[1].count)
          IN [remaining |-> remaining,
              resetTime |-> record[1].windowStart + defaultLimit.windowSize,
              isLimited |-> (remaining = 0)]

\* getRateLimitStatus is called on the caller's key; `would` is what an
\* isRateLimited call with the category defaults answers in this state
\* under the same store read.
GetRateLimitStatus ==
  /\ \E fault \in {"none", "read"} :
       rlStatus' =
         << [status |-> getRateLimitStatus(rate_limits, rlConfig.type, now,
                                           fault),
             would |-> isRateLimited(rate_limits,
                                     [type |-> rlConfig.type, windowSize |-> 0,
                                      maxRequests |-> 0], now, fault).limited,
             fault |-> fault] >>
  /\ UNCHANGED <<now, rate_limits, rlConfig, rlCalls, rlWorkers>>
  /\ UNCHANGED <<retryVars, alertVars, schedVars, pubVars>>

NextRateStatus ==
  \/ IsRateLimited
  \/ GetRateLimitStatus
  \/ TickMs

SpecRateStatus == InitRate /\ [][NextRateStatus]_vars

(***************************************************************************)
(* EmailMonitor: createAlert and resolveAlert for one userId.              *)
(***************************************************************************)
AlertTypes == {"failures", "open_rate"}

\* getAlertConfig's defaultConfig (part_004:59-68); slack "" is no webhook.
DefaultAlertConfig ==
  [enabled |-> TRUE, email |-> TRUE, slack |-> "", cooldown |-> 30]

\* The states email_monitor_config/{userId} is let to start in.
AlertConfigDocs ==
  { <<>>,
    << [enabled |-> TRUE, email |-> FALSE, slack |-> "https://hooks",
        cooldown |-> 1] >>,
    << [enabled |-> TRUE, email |-> TRUE, slack |-> "https://hooks",
        cooldown |-> 30] >> }

MaxTicks == 1
MaxBreaches == 3
MaxResolves == 2
ResolveWindow == 2
BurstOps == 4
TickSteps == {60000, 1800000}

\* The clock advances, between two evaluations: the steps are minutes,
\* one evaluation takes less.
Tick ==
  /\ alertPc = "idle"
  /\ ticks < alertBudget.ticks
  /\ ticks + breaches + resolves < alertBudget.ops
  /\ \E d \in TickSteps : now' = now + d
  /\ ticks' = ticks + 1
  /\ UNCHANGED <<alertConfigDoc, alerts, alertPc, alertCall, sent, breaches, alertWarns, resolves>>
  /\ UNCHANGED alertBudget
  /\ UNCHANGED <<retryVars, rateVars, schedVars, pubVars, evalVars>>

\* The documents of the cooldown query: active alerts of the type.  Without
\* orderBy the store returns them by document id, `${Date.now()}-${random}`,
\* that is by creation instant, oldest first.
RecentAlerts_Mut(type) ==
  SelectSeq(alerts, LAMBDA a : a.type = type)

RecentAlerts(type) ==
  SelectSeq(alerts, LAMBDA a : a.type = type /\ a.status = "active")

\* part_004:231-237: TRUE when createAlert returns for cooldown.
InCooldown_Mut(docs, config, t) == FALSE

InCooldown(docs, config, t) ==
  /\ docs # <<>>
  /\ t - docs[1].timestamp < config.cooldown * 60 * 1000

EndCreateAlert ==
  /\ alertPc' = "idle"
  /\ alertCall' = <<>>

\* An awaited call inside the try block of createAlert throws: control
\* goes to the catch block (part_004:311).
ThrowInCreateAlert ==
  /\ alertPc' = "catch"
  /\ UNCHANGED alertCall

\* The catch block of createAlert (part_004:311-313): the error is logged
\* and the promise of createAlert resolves.
CatchBlock_Mut ==
  /\ alertPc' = "rejected"
  /\ alertCall' = <<>>

CatchBlock ==
  /\ alertPc' = "idle"
  /\ alertCall' = <<>>

CatchError ==
  /\ alertPc = "catch"
  /\ CatchBlock
  /\ UNCHANGED <<now, alertConfigDoc, alerts, sent, ticks, breaches, alertWarns, resolves>>
  /\ UNCHANGED alertBudget
  /\ UNCHANGED <<retryVars, rateVars, schedVars, pubVars, evalVars>>

\* A breach is evaluated: createAlert is called and awaits getAlertConfig.
CreateAlert ==
  /\ alertPc = "idle"
  /\ breaches < alertBudget.breaches
  /\ ticks + breaches + resolves < alertBudget.ops
  /\ breaches' = breaches + 1
  /\ \E type \in AlertTypes :
       alertCall' = << [type |-> type, config |-> DefaultAlertConfig,
                        limiterFault |-> FALSE] >>
  /\ alertPc' = "getAlertConfig"
  /\ UNCHANGED <<now, alertConfigDoc, alerts, sent, ticks, alertWarns, resolves>>
  /\ UNCHANGED alertBudget
  /\ UNCHANGED <<retryVars, rateVars, schedVars, pubVars, evalVars>>

\* getAlertConfig returns the stored config, or stores and returns the
\* default one; a store error is rethrown and ends createAlert in its catch.
GetAlertConfig ==
  /\ alertPc = "getAlertConfig"
  /\ \/ /\ alertConfigDoc # <<>>
        /\ alertCall' = << [alertCall[1] EXCEPT !.config = alertConfigDoc[1]] >>
        /\ alertPc' = "getDocs"
        /\ UNCHANGED alertConfigDoc
     \/ /\ alertConfigDoc = <<>>
        /\ alertConfigDoc' = << DefaultAlertConfig >>
        /\ alertCall' = << [alertCall[1] EXCEPT !.config = DefaultAlertConfig] >>
        /\ alertPc' = "getDocs"
     \/ /\ ThrowInCreateAlert
        /\ UNCHANGED alertConfigDoc
  /\ UNCHANGED <<now, alerts, sent, ticks, breaches, alertWarns, resolves>>
  /\ UNCHANGED alertBudget
  /\ UNCHANGED <<retryVars, rateVars, schedVars, pubVars, evalVars>>

\* The cooldown query completes (or throws) and the cooldown is tested.
GetDocs ==
  /\ alertPc = "getDocs"
  /\ \/ /\ InCooldown(RecentAlerts(alertCall[1].type), alertCall[1].config, now)
        /\ EndCreateAlert
     \/ /\ ~InCooldown(RecentAlerts(alertCall[1].type), alertCall[1].config, now)
        /\ alertPc' = "alertLimit"
        /\ UNCHANGED alertCall
     \/ ThrowInCreateAlert
  /\ UNCHANGED <<now, alertConfigDoc, alerts, sent, ticks, breaches, alertWarns, resolves>>
  /\ UNCHANGED alertBudget
  /\ UNCHANGED <<retryVars, rateVars, schedVars, pubVars, evalVars>>

\* part_004:240-245, the limiter config of createAlert: 10 per minute.
AlertLimitConfig_Mut ==
  [type |-> "alert", windowSize |-> 60000, maxRequests |-> 11]

AlertLimitConfig ==
  [type |-> "alert", windowSize |-> 60000, maxRequests |-> 10]

\* RateLimiter.isRateLimited for the alert category; when limited, the
\* warning is logged and createAlert returns.
AlertRateLimit ==
  /\ alertPc = "alertLimit"
  /\ \E fault \in Faults :
       LET cfg == AlertLimitConfig
           r == isRateLimited(rate_limits, cfg, now, fault)
       IN /\ fault = "write" =>
               RateDecision(rate_limits["alert"], cfg, now) # "limited"
          /\ rate_limits' = r.store
          /\ IF r.limited
             THEN /\ EndCreateAlert
                  /\ alertWarns' = alertWarns + 1
             ELSE /\ alertPc' = "setDoc"
                  /\ alertCall' = << [alertCall[1] EXCEPT
                                        !.limiterFault = (fault # "none")] >>
                  /\ alertWarns' = alertWarns
  /\ UNCHANGED <<now, alertConfigDoc, alerts, sent, ticks, breaches, rlConfig,
                 rlCalls, rlWorkers, rlStatus, resolves>>
  /\ UNCHANGED alertBudget
  /\ UNCHANGED <<retryVars, schedVars, pubVars, evalVars>>

\* part_004:290: a Slack webhook is configured.
SlackConfigured(config) == config.slack # ""

\* part_004:252-261: the collection after setDoc of the new alert.
\* failedOpen is no stored field: it notes that the limiter call of this
\* evaluation answered from its catch block.
PersistAlert_Mut(docs, call, t) == docs

PersistAlert(docs, call, t) ==
  Append(docs, [type |-> call.type, timestamp |-> t, status |-> "active",
                resolvedAt |-> <<>>, failedOpen |-> call.limiterFault])

\* setDoc of the new alert completes, then the channels are looked at; or
\* it throws.
SetAlertDoc ==
  /\ alertPc = "setDoc"
  /\ \/ /\ alerts' = PersistAlert(alerts, alertCall[1], now)
        /\ alertPc' = IF alertCall[1].config.email THEN "emailLimit"
                      ELSE IF SlackConfigured(alertCall[1].config)
                      THEN "slackLimit" ELSE "idle"
        /\ alertCall' = IF alertCall[1].config.email
                           \/ SlackConfigured(alertCall[1].config)
                        THEN alertCall ELSE <<>>
     \/ /\ ThrowInCreateAlert
        /\ UNCHANGED alerts
  /\ UNCHANGED <<now, alertConfigDoc, sent, ticks, breaches, alertWarns, resolves>>
  /\ UNCHANGED alertBudget
  /\ UNCHANGED <<retryVars, rateVars, schedVars, pubVars, evalVars>>

\* RateLimiter.isRateLimited for the email category, 100 per hour.
EmailRateLimit ==
  /\ alertPc = "emailLimit"
  /\ \E fault \in Faults :
       LET cfg == [type |-> "email", windowSize |-> 3600000,
                   maxRequests |-> 100]
           r == isRateLimited(rate_limits, cfg, now, fault)
       IN /\ fault = "write" =>
               RateDecision(rate_limits["email"], cfg, now) # "limited"
          /\ rate_limits' = r.store
          /\ IF ~r.limited
             THEN alertPc' = "sendEmailAlert" /\ UNCHANGED alertCall
             ELSE IF SlackConfigured(alertCall[1].config)
             THEN alertPc' = "slackLimit" /\ UNCHANGED alertCall
             ELSE EndCreateAlert
  /\ UNCHANGED <<now, alertConfigDoc, alerts, sent, ticks, breaches, rlConfig, rlCalls, rlWorkers, rlStatus, alertWarns, resolves>>
  /\ UNCHANGED alertBudget
  /\ UNCHANGED <<retryVars, schedVars, pubVars, evalVars>>

\* NotificationService.sendEmailAlert(...): NotificationService
\* (NotificationService.ts:18-173) defines no sendEmailAlert, so the call
\* throws a TypeError, which the catch of createAlert logs.
SendEmailAlert ==
  /\ alertPc = "sendEmailAlert"
  /\ ThrowInCreateAlert
  /\ UNCHANGED <<now, alertConfigDoc, alerts, sent, ticks, breaches, alertWarns, resolves>>
  /\ UNCHANGED alertBudget
  /\ UNCHANGED <<retryVars, rateVars, schedVars, pubVars, evalVars>>

\* RateLimiter.isRateLimited for the notification category, 50 per 5 min.
SlackRateLimit ==
  /\ alertPc = "slackLimit"
  /\ \E fault \in Faults :
       LET cfg == [type |-> "notification", windowSize |-> 300000,
                   maxRequests |-> 50]
           r == isRateLimited(rate_limits, cfg, now, fault)
       IN /\ fault = "write" =>
               RateDecision(rate_limits["notification"], cfg, now) # "limited"
          /\ rate_limits' = r.store
          /\ IF ~r.limited
             THEN alertPc' = "fetch" /\ UNCHANGED alertCall
             ELSE EndCreateAlert
  /\ UNCHANGED <<now, alertConfigDoc, alerts, sent, ticks, breaches, rlConfig, rlCalls, rlWorkers, rlStatus, alertWarns, resolves>>
  /\ UNCHANGED alertBudget
  /\ UNCHANGED <<retryVars, schedVars, pubVars, evalVars>>

\* fetch(slackUrl, POST) completes or throws.
FetchSlack ==
  /\ alertPc = "fetch"
  /\ \/ /\ sent' = Append(sent, [channel |-> "slack",
                                 type |-> alertCall[1].type, at |-> now])
        /\ EndCreateAlert
     \/ /\ UNCHANGED sent
        /\ ThrowInCreateAlert
  /\ UNCHANGED <<now, alertConfigDoc, alerts, ticks, breaches, alertWarns, resolves>>
  /\ UNCHANGED alertBudget
  /\ UNCHANGED <<retryVars, rateVars, schedVars, pubVars, evalVars>>

\* The alerts whose id a resolveAlert call of this run is let to pass: the
\* latest ResolveWindow stored ones.
ResolveTargets ==
  { i \in 1..Len(alerts) : i > Len(alerts) - ResolveWindow }

\* resolveAlert(id) on a stored alert: setDoc merge completes, or throws.
\* It is taken between two evaluations: its one write commutes with every
\* step of createAlert but the cooldown query, the first read of the alerts.
ResolveAlert ==
  /\ alertPc = "idle"
  /\ resolves < alertBudget.resolves
  /\ ticks + breaches + resolves < alertBudget.ops
  /\ resolves' = resolves + 1
  /\ \E i \in ResolveTargets :
       \/ alerts' = [alerts EXCEPT ![i].status = "resolved",
                                   ![i].resolvedAt = <<now>>]
       \/ UNCHANGED alerts
  /\ UNCHANGED <<now, alertConfigDoc, alertPc, alertCall, sent, ticks, breaches,
                 alertWarns>>
  /\ UNCHANGED alertBudget
  /\ UNCHANGED <<retryVars, rateVars, schedVars, pubVars, evalVars>>

InitAlert ==
  /\ now = 0
  /\ alertConfigDoc \in AlertConfigDocs
  /\ alerts = <<>> /\ alertPc = "idle" /\ alertCall = <<>>
  /\ sent = <<>> /\ ticks = 0 /\ breaches = 0 /\ alertWarns = 0
  /\ resolves = 0
  /\ evals = [e \in Evals |-> IdleEval]
  /\ alertBudget = [ticks |-> MaxTicks, breaches |-> MaxBreaches,
                    resolves |-> MaxResolves,
                    ops |-> MaxTicks + MaxBreaches + MaxResolves]
  /\ RetryIdle /\ RateIdle /\ SchedIdle /\ PubIdle

NextAlert ==
  \/ CreateAlert
  \/ GetAlertConfig
  \/ GetDocs
  \/ AlertRateLimit
  \/ SetAlertDoc
  \/ EmailRateLimit
  \/ SendEmailAlert
  \/ SlackRateLimit
  \/ FetchSlack
  \/ CatchError
  \/ ResolveAlert
  \/ Tick

SpecAlert == InitAlert /\ [][NextAlert]_vars

\* The number of alerts a busy minute has left behind.
PriorAlerts == 9

\* The limiter records after PriorAlerts evaluations under `config` within
\* the instant 0: each has passed the alert limiter and the limiter of the
\* channel it reached (email when enabled, where sendEmailAlert throws;
\* else Slack).
BusyRateLimits(config) ==
  [c \in Categories |->
     IF \/ c = "alert"
        \/ c = "email" /\ config.email
        \/ c = "notification" /\ ~config.email /\ SlackConfigured(config)
     THEN << [count |-> PriorAlerts, windowStart |-> 0, lastUpdated |-> 0] >>
     ELSE <<>>]

\* A user after a busy minute: PriorAlerts alerts stored at the instant 0
\* and resolved since, the webhook having been down.
InitAlertBurst ==
  /\ now = 0
  /\ alertConfigDoc \in AlertConfigDocs \ {<<>>}
  /\ alerts = [i \in 1..PriorAlerts |->
                 [type |-> "failures", timestamp |-> 0, status |-> "resolved",
                  resolvedAt |-> <<0>>, failedOpen |-> FALSE]]
  /\ rate_limits = BusyRateLimits(alertConfigDoc[1])
  /\ alertPc = "idle" /\ alertCall = <<>>
  /\ sent = <<>> /\ ticks = 0 /\ breaches = 0 /\ alertWarns = 0
  /\ resolves = 0
  /\ evals = [e \in Evals |-> IdleEval]
  /\ alertBudget = [ticks |-> BurstOps, breaches |-> BurstOps,
                    resolves |-> BurstOps, ops |-> BurstOps]
  /\ rlConfig = [type |-> "alert", windowSize |-> 0, maxRequests |-> 0]
  /\ rlCalls = <<>>
  /\ rlWorkers = [w \in Callers |-> IdleCaller]
  /\ rlStatus = <<>>
  /\ RetryIdle /\ SchedIdle /\ PubIdle

SpecAlertBurst == InitAlertBurst /\ [][NextAlert]_vars

\* A user without alerts, for a short run of evaluations, resolutions and
\* clock steps.
InitAlertFresh ==
  /\ now = 0
  /\ alertConfigDoc \in AlertConfigDocs
  /\ alerts = <<>> /\ alertPc = "idle" /\ alertCall = <<>>
  /\ sent = <<>> /\ ticks = 0 /\ breaches = 0 /\ alertWarns = 0
  /\ resolves = 0
  /\ evals = [e \in Evals |-> IdleEval]
  /\ alertBudget = [ticks |-> BurstOps, breaches |-> BurstOps,
                    resolves |-> BurstOps, ops |-> BurstOps]
  /\ RetryIdle /\ RateIdle /\ SchedIdle /\ PubIdle

SpecAlertFresh == InitAlertFresh /\ [][NextAlert]_vars

(***************************************************************************)
(* EmailMonitor.createAlert called by two breach evaluations of one user   *)
(* that overlap: each call is suspended at its awaits (part_004:220, 230,  *)
(* 240, 261).  The store answers every call here; the channel dispatch     *)
(* after setDoc (part_004:263-310) writes no alert and is left to          *)
(* SpecAlert.                                                              *)
(***************************************************************************)
EvalOthersUnchanged ==
  /\ UNCHANGED <<now, alertPc, alertCall, sent, ticks, breaches, alertWarns,
                 resolves, alertBudget>>
  /\ UNCHANGED <<rlConfig, rlCalls, rlWorkers, rlStatus>>
  /\ UNCHANGED <<retryVars, schedVars, pubVars>>

\* An evaluation finds a breach: createAlert is called and awaits
\* getAlertConfig (part_004:117, 197, 220).
EvalCreateAlert ==
  /\ \E e \in Evals, type \in AlertTypes :
       /\ evals[e].pc = "idle"
       /\ evals' = [evals EXCEPT ![e] = [pc |-> "getAlertConfig",
                                         type |-> type, cooldown |-> 0]]
  /\ UNCHANGED <<alertConfigDoc, alerts, rate_limits>>
  /\ EvalOthersUnchanged

\* getAlertConfig returns the stored config, or stores and returns the
\* default one (part_004:52-73); the cooldown query is sent.
EvalGetAlertConfig ==
  /\ \E e \in Evals :
       /\ evals[e].pc = "getAlertConfig"
       /\ LET config == IF alertConfigDoc # <<>> THEN alertConfigDoc[1]
                        ELSE DefaultAlertConfig
          IN /\ alertConfigDoc' = << config >>
             /\ evals' = [evals EXCEPT ![e].pc = "getDocs",
                                       ![e].cooldown = config.cooldown]
  /\ UNCHANGED <<alerts, rate_limits>>
  /\ EvalOthersUnchanged

\* The cooldown query resolves and the cooldown is tested (part_004:230-237).
EvalGetDocs ==
  /\ \E e \in Evals :
       /\ evals[e].pc = "getDocs"
       /\ evals' = [evals EXCEPT ![e].pc =
            IF InCooldown(RecentAlerts(evals[e].type),
                          [cooldown |-> evals[e].cooldown], now)
            THEN "returned" ELSE "alertLimit"]
  /\ UNCHANGED <<alertConfigDoc, alerts, rate_limits>>
  /\ EvalOthersUnchanged

\* RateLimiter.isRateLimited for the alert category answers
\* (part_004:240-250).
EvalRateLimit ==
  /\ \E e \in Evals :
       /\ evals[e].pc = "alertLimit"
       /\ LET r == isRateLimited(rate_limits, AlertLimitConfig, now, "none")
          IN /\ rate_limits' = r.store
             /\ evals' = [evals EXCEPT ![e].pc =
                            IF r.limited THEN "returned" ELSE "setDoc"]
  /\ UNCHANGED <<alertConfigDoc, alerts>>
  /\ EvalOthersUnchanged

\* setDoc of the new alert completes (part_004:252-261).
EvalSetDoc ==
  /\ \E e \in Evals :
       /\ evals[e].pc = "setDoc"
       /\ alerts' = PersistAlert(alerts, [type |-> evals[e].type,
                                          limiterFault |-> FALSE], now)
       /\ evals' = [evals EXCEPT ![e].pc = "returned"]
  /\ UNCHANGED <<alertConfigDoc, rate_limits>>
  /\ EvalOthersUnchanged

InitAlertConc ==
  /\ now = 0
  /\ alertConfigDoc \in AlertConfigDocs
  /\ alerts = <<>> /\ alertPc = "idle" /\ alertCall = <<>>
  /\ sent = <<>> /\ ticks = 0 /\ breaches = 0 /\ alertWarns = 0
  /\ resolves = 0
  /\ evals = [e \in Evals |-> IdleEval]
  /\ alertBudget = [ticks |-> MaxTicks, breaches |-> 0, resolves |-> 0,
                    ops |-> MaxTicks]
  /\ RetryIdle /\ RateIdle /\ SchedIdle /\ PubIdle

NextAlertConc ==
  \/ EvalCreateAlert
  \/ EvalGetAlertConfig
  \/ EvalGetDocs
  \/ EvalRateLimit
  \/ EvalSetDoc
  \/ Tick

SpecAlertConc == InitAlertConc /\ [][NextAlertConc]_vars

(***************************************************************************)
(* ReportScheduler.calculateNextRun.  Instants are minutes of local time   *)
(* since 2023-01-01 00:00, a Sunday; `now` is cut to its minute, which     *)
(* keeps every `next <= now` test, next having zero seconds.  Local time   *)
(* has no daylight-saving shift.                                           *)
(***************************************************************************)
MinutesPerDay == 24 * 60

\* Days of month m, m = 0 for January 2023 ... 23 for December 2024.
DaysInMonth(m) ==
  LET k == m % 12 IN
  IF k = 1 THEN (IF m = 13 THEN 29 ELSE 28)
  ELSE IF k \in {3, 5, 8, 10} THEN 30 ELSE 31

\* Day number of the first day of month m.
RECURSIVE MonthStart(_)
MonthStart(m) == IF m = 0 THEN 0 ELSE MonthStart(m - 1) + DaysInMonth(m - 1)

DayOf(t) == t \div MinutesPerDay
MinuteOf(t) == t % MinutesPerDay

\* Date.prototype.getMonth (counted from January 2023) and getDate.
RECURSIVE MonthFrom(_, _)
MonthFrom(day, m) ==
  IF day < MonthStart(m + 1) THEN m ELSE MonthFrom(day, m + 1)
getMonth(t) == MonthFrom(DayOf(t), 0)
getDate(t) == DayOf(t) - MonthStart(getMonth(t)) + 1

\* Date.prototype.getDay: 0 is Sunday.
getDay(t) == DayOf(t) % 7

\* Date.prototype.setHours(hours, minutes, 0, 0).
setHours(t, hours, minutes) == DayOf(t) * MinutesPerDay + hours * 60 + minutes

\* Date.prototype.setDate(d): day d of the month of t; a d beyond the end
\* of the month runs on into the following month.
setDate(t, d) == (MonthStart(getMonth(t)) + d - 1) * MinutesPerDay + MinuteOf(t)

\* Date.prototype.setMonth(m): same day-of-month in month m, running on
\* into the month after when month m is shorter.
setMonth(t, m) == (MonthStart(m) + getDate(t) - 1) * MinutesPerDay + MinuteOf(t)

\* The `time` strings of the schedules and schedule.time.split(':').map(Number).
TimeChoices == {"00:00", "09:30", "23:59"}
Hours(time) ==
  CASE time = "00:00" -> 0 [] time = "09:30" -> 9 [] time = "23:59" -> 23
Minutes(time) ==
  CASE time = "00:00" -> 0 [] time = "09:30" -> 30 [] time = "23:59" -> 59

\* ReportSchedulerDB.ts:95-97.
AdvanceIfPast_Mut(next, t) == IF next < t THEN setDate(next, getDate(next) + 1) ELSE next

AdvanceIfPast(next, t) == IF next <= t THEN setDate(next, getDate(next) + 1) ELSE next

\* ReportSchedulerDB.ts:103-105.
RECURSIVE WeeklyAdvance_Mut(_, _)
WeeklyAdvance_Mut(next, dayOfWeek) ==
  LET n == setDate(next, getDate(next) + 1) IN
  IF getDay(n) # dayOfWeek THEN WeeklyAdvance_Mut(n, dayOfWeek) ELSE n

RECURSIVE WeeklyAdvance(_, _)

WeeklyAdvance(next, dayOfWeek) ==
  IF getDay(next) # dayOfWeek
  THEN WeeklyAdvance(setDate(next, getDate(next) + 1), dayOfWeek)
  ELSE next

\* ReportSchedulerDB.ts:108-111; `schedule.dayOfMonth || 1`.
MonthlyAdjust_Mut(next, t, dayOfMonth) ==
  setDate(next, IF dayOfMonth # 0 THEN dayOfMonth ELSE 1)

MonthlyAdjust(next, t, dayOfMonth) ==
  LET n == setDate(next, IF dayOfMonth # 0 THEN dayOfMonth ELSE 1) IN
  IF n <= t THEN setMonth(n, getMonth(n) + 1) ELSE n

calculateNextRun(sch, t) ==
  LET next == AdvanceIfPast(setHours(t, Hours(sch.time), Minutes(sch.time)), t)
  IN CASE sch.frequency = "daily"   -> next
       [] sch.frequency = "weekly"  -> WeeklyAdvance(next, sch.dayOfWeek)
       [] sch.frequency = "monthly" -> MonthlyAdjust(next, t, sch.dayOfMonth)

\* Schedules with valid fields; a field the frequency does not use is 0.
Schedules ==
  { [frequency |-> "daily", dayOfWeek |-> 0, dayOfMonth |-> 0, time |-> tm] :
      tm \in TimeChoices }
  \cup { [frequency |-> "weekly", dayOfWeek |-> d, dayOfMonth |-> 0,
          time |-> tm] : d \in 0..6, tm \in TimeChoices }
  \cup { [frequency |-> "monthly", dayOfWeek |-> 0, dayOfMonth |-> d,
          time |-> tm] : d \in 1..31, tm \in TimeChoices }

MaxDay == 125
NowMinutes == {0, 569, 570, 571, 1439}

\* calculateNextRun(schedule) is evaluated at the instant `now`.
CalculateNextRun ==
  /\ nextRun = <<>>
  /\ nextRun' = << calculateNextRun(schedule, now) >>
  /\ calcAt' = << now >>
  /\ UNCHANGED <<now, schedule, timerVars, loopVars>>
  /\ UNCHANGED <<retryVars, rateVars, alertVars, pubVars>>

InitSched ==
  /\ \E d \in 0..MaxDay, m \in NowMinutes : now = d * MinutesPerDay + m
  /\ schedule \in Schedules
  /\ nextRun = <<>> /\ calcAt = <<>>
  /\ reportSchedules = <<>> /\ schedules = <<>> /\ timeouts = {}
  /\ nextHandle = 1 /\ generations = {} /\ updates = <<>> /\ fired = <<>>
  /\ lastEdit = <<>> /\ editCount = 0 /\ advances = 0
  /\ loopPc = "idle" /\ loopNext = <<>>
  /\ loads = <<>> /\ deletePc = "idle" /\ lifeCount = 0
  /\ RetryIdle /\ RateIdle /\ AlertIdle /\ PubIdle

NextSched == CalculateNextRun

SpecSched == InitSched /\ [][NextSched]_vars

(***************************************************************************)
(* calculateNextRun on a weekly schedule, one iteration of its while loop  *)
(* per step (ReportSchedulerDB.ts:89-106).  dayOfWeek is <<d>>, or <<>>    *)
(* when the field is missing.  A Date holds instants up to a last day;     *)
(* setDate past it leaves Invalid Date, whose getDay() is NaN.             *)
(***************************************************************************)
\* The last day a Date holds, scaled down from 100,000,000 days.
MaxDateDay == 30

\* Date.prototype.setDate(getDate() + 1) on a Date that may be invalid.
SetNextDay(next) ==
  IF next = <<>> THEN <<>>
  ELSE IF DayOf(next[1]) + 1 > MaxDateDay THEN <<>>
  ELSE << setDate(next[1], getDate(next[1]) + 1) >>

\* The loop condition `next.getDay() !== schedule.dayOfWeek`: NaN differs
\* from every value, a number differs from undefined.
LoopCondition(next, dayOfWeek) ==
  IF next = <<>> \/ dayOfWeek = <<>> THEN TRUE
  ELSE getDay(next[1]) # dayOfWeek[1]

WeeklyDays == {<<>>, <<3>>, <<7>>}

LoopOthersUnchanged ==
  /\ UNCHANGED <<now, schedule, timerVars>>
  /\ UNCHANGED <<retryVars, rateVars, alertVars, pubVars>>

\* calculateNextRun is called: lines 90-97, up to the switch.
WeeklyStart ==
  /\ loopPc = "idle"
  /\ loopNext' = << AdvanceIfPast(setHours(now, Hours(schedule.time),
                                          Minutes(schedule.time)), now) >>
  /\ loopPc' = "while"
  /\ calcAt' = << now >>
  /\ UNCHANGED nextRun
  /\ LoopOthersUnchanged

\* One iteration of the while loop (lines 103-105).
WeeklyWhile ==
  /\ loopPc = "while"
  /\ LoopCondition(loopNext, schedule.dayOfWeek)
  /\ loopNext' = SetNextDay(loopNext)
  /\ UNCHANGED <<loopPc, nextRun, calcAt>>
  /\ LoopOthersUnchanged

\* The loop condition is false: `next` is returned.
WeeklyReturn ==
  /\ loopPc = "while"
  /\ ~LoopCondition(loopNext, schedule.dayOfWeek)
  /\ nextRun' = loopNext
  /\ loopPc' = "returned"
  /\ UNCHANGED <<loopNext, calcAt>>
  /\ LoopOthersUnchanged

InitWeekly ==
  /\ \E d \in 0..6, m \in {569, 570} : now = d * MinutesPerDay + m
  /\ \E d \in WeeklyDays :
       schedule = [frequency |-> "weekly", dayOfWeek |-> d, dayOfMonth |-> 0,
                   time |-> "09:30"]
  /\ nextRun = <<>> /\ calcAt = <<>>
  /\ reportSchedules = <<>> /\ schedules = <<>> /\ timeouts = {}
  /\ nextHandle = 1 /\ generations = {} /\ updates = <<>> /\ fired = <<>>
  /\ lastEdit = <<>> /\ editCount = 0 /\ advances = 0
  /\ loopPc = "idle" /\ loopNext = <<>>
  /\ loads = <<>> /\ deletePc = "idle" /\ lifeCount = 0
  /\ RetryIdle /\ RateIdle /\ AlertIdle /\ PubIdle

NextWeekly ==
  \/ WeeklyStart
  \/ WeeklyWhile
  \/ WeeklyReturn

\* The call runs on while it has a step to take.
SpecWeekly == InitWeekly /\ [][NextWeekly]_vars /\ WF_vars(NextWeekly)

(***************************************************************************)
(* ReportScheduler at run time: createSchedule, updateSchedule, the timer  *)
(* callback of scheduleNext and generateAndSendReport, for one schedule    *)
(* id.  Instants are minutes as above; every call is made at the start of  *)
(* its minute.  A timer fires at the instant its delay ends.               *)
(***************************************************************************)
\* The frequency and time settings the user picks from.
TimerSchedules ==
  { [frequency |-> "daily", dayOfWeek |-> 0, dayOfMonth |-> 0, time |-> "09:30"],
    [frequency |-> "daily", dayOfWeek |-> 0, dayOfMonth |-> 0, time |-> "23:59"],
    [frequency |-> "weekly", dayOfWeek |-> 3, dayOfMonth |-> 0, time |-> "09:30"],
    [frequency |-> "monthly", dayOfWeek |-> 0, dayOfMonth |-> 31, time |-> "09:30"] }

\* The ReportSchedule objects of the form (email.tsx:318-327): settings,
\* enabled, and the number of recipients.
FormSchedules ==
  { [frequency |-> c.frequency, dayOfWeek |-> c.dayOfWeek,
     dayOfMonth |-> c.dayOfMonth, time |-> c.time, enabled |-> e,
     recipients |-> r, lastRun |-> <<>>, nextRun |-> <<>>] :
      c \in TimerSchedules, e \in BOOLEAN, r \in {0, 1} }

\* setTimeout keeps its delay in a signed 32-bit integer of milliseconds:
\* a longer delay is replaced by 1 ms.
MaxTimeoutMs == 2147483647

\* The instant a timer set at t for `target` fires: target, or t (1 ms
\* later) when the delay of (target - t) * 60000 ms exceeds MaxTimeoutMs.
FireAt_Mut(t, target) == target

FireAt(t, target) ==
  IF target - t > MaxTimeoutMs \div 60000 THEN t ELSE target

\* scheduleNext without its clearTimeout of the timer the map holds.
scheduleNext_Mut(sch, t, tmo, map, h) ==
  LET target == calculateNextRun(sch, t)
  IN [timeouts |-> tmo \cup { [handle |-> h, schedule |-> sch,
                               target |-> target,
                               fireAt |-> FireAt(t, target)] },
      schedules |-> << h >>,
      nextHandle |-> h + 1]

\* scheduleNext(sch) at instant t (ReportSchedulerDB.ts:175-192): the
\* timer the map holds is cleared, a new one is set and put into the map.
scheduleNext(sch, t, tmo, map, h) ==
  LET target == calculateNextRun(sch, t)
      kept == { tm \in tmo : map = <<>> \/ tm.handle # map[1] }
  IN [timeouts |-> kept \cup { [handle |-> h, schedule |-> sch,
                                target |-> target,
                                fireAt |-> FireAt(t, target)] },
      schedules |-> << h >>,
      nextHandle |-> h + 1]

\* The else branch of updateSchedule (ReportSchedulerDB.ts:218-224).
clearSchedule(tmo, map, h) ==
  [timeouts |-> { tm \in tmo : map = <<>> \/ tm.handle # map[1] },
   schedules |-> <<>>,
   nextHandle |-> h]

\* ReportSchedulerDB.ts:215-224, the part of updateSchedule after the save.
AfterSave(sch) ==
  LET r == IF sch.enabled
           THEN scheduleNext(sch, now, timeouts, schedules, nextHandle)
           ELSE clearSchedule(timeouts, schedules, nextHandle)
  IN /\ timeouts' = r.timeouts
     /\ schedules' = r.schedules
     /\ nextHandle' = r.nextHandle

MaxFires == 2
MaxEdits == 1
MaxAdvances == 2
MaxLifeOps == 1

\* createSchedule(form): saveSchedule completes and, when enabled, the
\* timer is armed; or saveSchedule throws and createSchedule rejects.
CreateSchedule ==
  /\ reportSchedules = <<>> /\ nextHandle = 1 /\ editCount = 0
  /\ deletePc = "idle"
  /\ \E form \in FormSchedules :
       LET newSchedule ==
             [form EXCEPT !.nextRun = << calculateNextRun(form, now) >>]
       IN \/ /\ reportSchedules' = << newSchedule >>
             /\ IF newSchedule.enabled
                THEN AfterSave(newSchedule)
                ELSE UNCHANGED <<timeouts, schedules, nextHandle>>
             /\ UNCHANGED editCount
          \/ /\ editCount' = MaxEdits
             /\ UNCHANGED <<reportSchedules, timeouts, schedules, nextHandle>>
  /\ UNCHANGED <<now, generations, updates, fired, lastEdit, advances>>
  /\ UNCHANGED <<schedule, nextRun, calcAt, loopVars, lifeVars>>
  /\ UNCHANGED <<retryVars, rateVars, alertVars, pubVars>>

\* The user submits the edit form (email.tsx:329-335): updateSchedule is
\* called with the form fields and the lastRun/nextRun of the listed
\* schedule, and awaits saveSchedule.
UpdateSchedule ==
  /\ reportSchedules # <<>> /\ updates = <<>>
  /\ editCount < MaxEdits
  /\ editCount' = editCount + 1
  /\ \E form \in FormSchedules :
       updates' = << [form EXCEPT !.lastRun = reportSchedules[1].lastRun,
                                  !.nextRun = reportSchedules[1].nextRun] >>
  /\ UNCHANGED <<now, reportSchedules, schedules, timeouts, nextHandle,
                 generations, fired, lastEdit, advances>>
  /\ UNCHANGED <<schedule, nextRun, calcAt, loopVars, lifeVars>>
  /\ UNCHANGED <<retryVars, rateVars, alertVars, pubVars>>

\* saveSchedule of the user's updateSchedule completes and the timer is
\* replaced or cleared; or it throws and updateSchedule rejects.
UpdateSaved ==
  /\ updates # <<>>
  /\ updates' = <<>>
  /\ \/ /\ reportSchedules' = updates
        /\ AfterSave(updates[1])
        /\ lastEdit' = << [schedule |-> updates[1],
                           handle |-> IF updates[1].enabled THEN nextHandle
                                      ELSE 0] >>
     \/ UNCHANGED <<reportSchedules, timeouts, schedules, nextHandle, lastEdit>>
  /\ UNCHANGED <<now, generations, fired, editCount, advances>>
  /\ UNCHANGED <<schedule, nextRun, calcAt, loopVars, lifeVars>>
  /\ UNCHANGED <<retryVars, rateVars, alertVars, pubVars>>

\* The timer callback without its scheduleNext call: the next timer is
\* left to the updateSchedule call that ends a generation.
TimerFires_Mut ==
  /\ Len(fired) < MaxFires
  /\ \E tm \in timeouts :
       /\ tm.fireAt <= now
       /\ fired' = Append(fired, [handle |-> tm.handle, target |-> tm.target,
                                  at |-> now])
       /\ generations' = generations \cup
            { [handle |-> tm.handle, schedule |-> tm.schedule,
               target |-> tm.target, started |-> now, pc |-> "exportData",
               arg |-> tm.schedule] }
       /\ timeouts' = timeouts \ {tm}
       /\ UNCHANGED <<schedules, nextHandle>>
  /\ UNCHANGED <<now, reportSchedules, updates, lastEdit, editCount, advances>>
  /\ UNCHANGED <<schedule, nextRun, calcAt, loopVars, lifeVars>>
  /\ UNCHANGED <<retryVars, rateVars, alertVars, pubVars>>

\* A timer fires (ReportSchedulerDB.ts:186-189): generateAndSendReport
\* starts and runs up to its await of exportData, then scheduleNext runs
\* with the schedule object of the timer.
TimerFires ==
  /\ Len(fired) < MaxFires
  /\ \E tm \in timeouts :
       /\ tm.fireAt <= now
       /\ fired' = Append(fired, [handle |-> tm.handle, target |-> tm.target,
                                  at |-> now])
       /\ generations' = generations \cup
            { [handle |-> tm.handle, schedule |-> tm.schedule,
               target |-> tm.target, started |-> now, pc |-> "exportData",
               arg |-> tm.schedule] }
       /\ LET r == scheduleNext(tm.schedule, now, timeouts \ {tm}, schedules,
                                nextHandle)
          IN /\ timeouts' = r.timeouts
             /\ schedules' = r.schedules
             /\ nextHandle' = r.nextHandle
  /\ UNCHANGED <<now, reportSchedules, updates, lastEdit, editCount, advances>>
  /\ UNCHANGED <<schedule, nextRun, calcAt, loopVars, lifeVars>>
  /\ UNCHANGED <<retryVars, rateVars, alertVars, pubVars>>

\* ExportService.exportData of a generation completes or throws (the catch
\* of generateAndSendReport logs it).  After it, recipients.map calls
\* NotificationService.sendEmailWithAttachment, which NotificationService
\* (NotificationService.ts:18-173) does not define: with a recipient the
\* TypeError ends the generation; with none, updateSchedule is called with
\* lastRun and the recomputed nextRun and awaits saveSchedule.
ExportDone ==
  /\ \E g \in generations :
       /\ g.pc = "exportData"
       /\ \/ generations' = generations \ {g}
          \/ /\ g.schedule.recipients > 0
             /\ generations' = generations \ {g}
          \/ /\ g.schedule.recipients = 0
             /\ generations' = (generations \ {g}) \cup
                  { [g EXCEPT !.pc = "saveSchedule",
                              !.arg = [g.schedule EXCEPT
                                  !.lastRun = << g.started >>,
                                  !.nextRun =
                                     << calculateNextRun(g.schedule, now) >>]] }
  /\ UNCHANGED <<now, reportSchedules, schedules, timeouts, nextHandle,
                 updates, fired, lastEdit, editCount, advances>>
  /\ UNCHANGED <<schedule, nextRun, calcAt, loopVars, lifeVars>>
  /\ UNCHANGED <<retryVars, rateVars, alertVars, pubVars>>

\* saveSchedule of the updateSchedule call that ends a generation
\* completes and the timer is replaced; or it throws into the catch.
GenerationSaved ==
  /\ \E g \in generations :
       /\ g.pc = "saveSchedule"
       /\ generations' = generations \ {g}
       /\ \/ /\ reportSchedules' = << g.arg >>
             /\ AfterSave(g.arg)
          \/ UNCHANGED <<reportSchedules, timeouts, schedules, nextHandle>>
  /\ UNCHANGED <<now, updates, fired, lastEdit, editCount, advances>>
  /\ UNCHANGED <<schedule, nextRun, calcAt, loopVars, lifeVars>>
  /\ UNCHANGED <<retryVars, rateVars, alertVars, pubVars>>

\* The user deletes the listed schedule (email.tsx:391): deleteSchedule
\* clears the timer the map holds and the map entry, then awaits
\* deleteScheduleFromDB (ReportSchedulerDB.ts:227-237).
DeleteSchedule ==
  /\ reportSchedules # <<>> /\ deletePc # "deleteDoc"
  /\ lifeCount < MaxLifeOps
  /\ lifeCount' = lifeCount + 1
  /\ deletePc' = "deleteDoc"
  /\ LET r == clearSchedule(timeouts, schedules, nextHandle)
     IN /\ timeouts' = r.timeouts
        /\ schedules' = r.schedules
        /\ nextHandle' = r.nextHandle
  /\ UNCHANGED <<now, reportSchedules, generations, updates, fired, lastEdit,
                 editCount, advances, loads>>
  /\ UNCHANGED <<schedule, nextRun, calcAt, loopVars>>
  /\ UNCHANGED <<retryVars, rateVars, alertVars, pubVars>>

\* deleteDoc of deleteSchedule completes, or throws and deleteSchedule
\* rejects with the document left in place.
DeleteDone ==
  /\ deletePc = "deleteDoc"
  /\ \/ /\ reportSchedules' = <<>>
        /\ deletePc' = "done"
     \/ /\ deletePc' = "idle"
        /\ UNCHANGED reportSchedules
  /\ UNCHANGED <<now, schedules, timeouts, nextHandle, generations, updates,
                 fired, lastEdit, editCount, advances, loads, lifeCount>>
  /\ UNCHANGED <<schedule, nextRun, calcAt, loopVars>>
  /\ UNCHANGED <<retryVars, rateVars, alertVars, pubVars>>

\* initializeSchedules is called (ReportSchedulerDB.ts:245-247): the
\* query of getAllSchedulesFromDB reads the collection, or throws and
\* initializeSchedules rejects.
InitializeSchedules ==
  /\ loads = <<>>
  /\ lifeCount < MaxLifeOps
  /\ lifeCount' = lifeCount + 1
  /\ \/ loads' = << reportSchedules >>
     \/ UNCHANGED loads
  /\ UNCHANGED <<now, reportSchedules, schedules, timeouts, nextHandle,
                 generations, updates, fired, lastEdit, editCount, advances,
                 deletePc>>
  /\ UNCHANGED <<schedule, nextRun, calcAt, loopVars>>
  /\ UNCHANGED <<retryVars, rateVars, alertVars, pubVars>>

\* The query of initializeSchedules resolves (ReportSchedulerDB.ts:249-254):
\* scheduleNext for each enabled schedule of the list.
SchedulesLoaded ==
  /\ loads # <<>>
  /\ loads' = <<>>
  /\ IF loads[1] # <<>> /\ loads[1][1].enabled
     THEN LET r == scheduleNext(loads[1][1], now, timeouts, schedules,
                                nextHandle)
          IN /\ timeouts' = r.timeouts
             /\ schedules' = r.schedules
             /\ nextHandle' = r.nextHandle
     ELSE UNCHANGED <<timeouts, schedules, nextHandle>>
  /\ UNCHANGED <<now, reportSchedules, generations, updates, fired, lastEdit,
                 editCount, advances, deletePc, lifeCount>>
  /\ UNCHANGED <<schedule, nextRun, calcAt, loopVars>>
  /\ UNCHANGED <<retryVars, rateVars, alertVars, pubVars>>

\* The clock advances by a minute or to the instant of a pending timer,
\* never past a timer that is due.
Advance ==
  /\ advances < MaxAdvances
  /\ advances' = advances + 1
  /\ \A tm \in timeouts : tm.fireAt > now
  /\ \E t \in {now + 1} \cup { tm.fireAt : tm \in timeouts } : now' = t
  /\ UNCHANGED <<reportSchedules, schedules, timeouts, nextHandle,
                 generations, updates, fired, lastEdit, editCount>>
  /\ UNCHANGED <<schedule, nextRun, calcAt, loopVars, lifeVars>>
  /\ UNCHANGED <<retryVars, rateVars, alertVars, pubVars>>

\* The instants the process is started at: 1 January and 20 January 2023,
\* 09:29.
StartMinutes == {569, 20 * MinutesPerDay + 569}

InitTimer ==
  /\ now \in StartMinutes
  /\ schedule = [frequency |-> "daily", dayOfWeek |-> 0, dayOfMonth |-> 0,
                 time |-> 0]
  /\ nextRun = <<>> /\ calcAt = <<>>
  /\ reportSchedules = <<>> /\ schedules = <<>> /\ timeouts = {}
  /\ nextHandle = 1 /\ generations = {} /\ updates = <<>> /\ fired = <<>>
  /\ lastEdit = <<>> /\ editCount = 0 /\ advances = 0
  /\ loopPc = "idle" /\ loopNext = <<>>
  /\ loads = <<>> /\ deletePc = "idle" /\ lifeCount = 0
  /\ RetryIdle /\ RateIdle /\ AlertIdle /\ PubIdle

NextTimer ==
  \/ CreateSchedule
  \/ UpdateSchedule
  \/ UpdateSaved
  \/ TimerFires
  \/ ExportDone
  \/ GenerationSaved
  \/ DeleteSchedule
  \/ DeleteDone
  \/ InitializeSchedules
  \/ SchedulesLoaded
  \/ Advance

SpecTimer == InitTimer /\ [][NextTimer]_vars

(***************************************************************************)
(* The firing chain of a schedule the user leaves alone after creating it. *)
(* Time passes, the event loop runs a timer that is due, and every awaited *)
(* call of a generation settles.                                           *)
(***************************************************************************)
\* The clock reaches the instant of a pending timer.
ClockReachesTimer ==
  /\ Advance
  /\ \E tm \in timeouts : now' = tm.fireAt

NextChain ==
  \/ CreateSchedule
  \/ TimerFires
  \/ ExportDone
  \/ GenerationSaved
  \/ Advance

\* TimerFires can be taken: a timer is due.
TimerIsDue ==
  /\ Len(fired) < MaxFires
  /\ \E tm \in timeouts : tm.fireAt <= now

\* Weak fairness of TimerFires, the only action that adds to `fired`,
\* written with its enabling condition.
FairTimerFires ==
  []<>(~TimerIsDue) \/ []<><<Len(fired') > Len(fired)>>_vars

SpecChain ==
  /\ InitTimer /\ [][NextChain]_vars
  /\ WF_vars(ClockReachesTimer)
  /\ FairTimerFires

(***************************************************************************)
(* PostPublisher.publishPost                                               *)
(***************************************************************************)
\* The iterations i.. of `for (const platform of platforms)`.  The body
\* first evaluates TokenManager.getAccessToken(userId, platform).  Class
\* TokenManager (TokenManager.ts:17-110) defines getToken, saveToken,
\* refreshToken and deleteToken and no getAccessToken (the build ignores
\* type errors, next.config.js:8-10), so the call throws a TypeError inside
\* the try and the catch records the platform as failed.  Nothing is
\* awaited on that path: the loop runs to its end in one step.
RECURSIVE PublishLoop(_, _, _)
PublishLoop(list, i, res) ==
  IF i > Len(list) THEN res
  ELSE PublishLoop(list, i + 1,
         [res EXCEPT !.failed =
            Append(@, [platform |-> list[i],
                       error |-> "TokenManager.getAccessToken is not a function"])])

\* publishPost is called: the loop, then updateDoc is awaited.
PublishPost ==
  /\ pubPc = "idle"
  /\ results' = PublishLoop(platforms, 1, [success |-> <<>>, failed |-> <<>>])
  /\ pubIdx' = Len(platforms) + 1
  /\ pubPc' = "updateDoc"
  /\ UNCHANGED <<now, platforms, clientPlan, postStatus, digestVars>>
  /\ UNCHANGED <<retryVars, rateVars, alertVars, schedVars>>

\* updateDoc(posts/{postId}, {status, publishResults, publishedAt})
\* completes and results is returned, or it throws and publishPost rejects.
PublishUpdateDoc ==
  /\ pubPc = "updateDoc"
  /\ \/ /\ postStatus' = IF Len(results.failed) = 0 THEN "published"
                         ELSE "partially_published"
        /\ pubPc' = "returned"
     \/ /\ pubPc' = "rejected"
        /\ UNCHANGED postStatus
  /\ UNCHANGED <<now, platforms, pubIdx, results, clientPlan, digestVars>>
  /\ UNCHANGED <<retryVars, rateVars, alertVars, schedVars>>

\* What a platform's API answers to the publish of this post: success,
\* a terminal error, or success after two transient errors.
ClientPlans == {"ok", "terminal", "okAfter2"}

MaxPlatforms == 2

\* The platform lists of a post: distinct platforms, at most MaxPlatforms.
RECURSIVE PlatformLists(_)
PlatformLists(n) ==
  IF n = 0 THEN { <<>> }
  ELSE PlatformLists(n - 1)
       \cup { Append(l, p) : l \in { k \in PlatformLists(n - 1) : Len(k) = n - 1 },
                             p \in Platforms }

InitPublish ==
  /\ now = 0
  /\ platforms \in { l \in PlatformLists(MaxPlatforms) :
                       \A i, j \in 1..Len(l) : i # j => l[i] # l[j] }
  /\ clientPlan \in [Platforms -> ClientPlans]
  /\ pubIdx = 1 /\ results = [success |-> <<>>, failed |-> <<>>]
  /\ pubPc = "idle" /\ postStatus = "scheduled"
  /\ DigestIdle
  /\ RetryIdle /\ RateIdle /\ AlertIdle /\ SchedIdle

NextPublish ==
  \/ PublishPost
  \/ PublishUpdateDoc

SpecPublish == InitPublish /\ [][NextPublish]_vars

(***************************************************************************)
(* EmailWorker.processDigestNotifications and                              *)
(* NotificationService.shouldSendDigest.  Instants are hours here.         *)
(***************************************************************************)
Periods == {"hourly", "daily"}
PeriodHours(period) == IF period = "hourly" THEN 1 ELSE 24

\* The notification_preferences documents: absent, or email, digestFrequency
\* and lastDigestSent (per period: <<>> or <<instant>>).
PreferenceDocs ==
  {<<>>} \cup
  { << [email |-> e, digestFrequency |-> f,
        lastDigestSent |-> [hourly |-> l, daily |-> l]] >> :
      e \in BOOLEAN, f \in {"immediate", "hourly", "daily"},
      l \in {<<>>, <<0>>} }

\* NotificationService.shouldSendDigest(userId, digestType) at instant t,
\* its getDoc completing (a throw gives false).
shouldSendDigest(prefs, digestType, t) ==
  IF prefs = <<>> \/ ~prefs[1].email THEN FALSE
  ELSE IF prefs[1].digestFrequency # digestType THEN FALSE
  ELSE IF prefs[1].lastDigestSent[digestType] = <<>> THEN TRUE
  ELSE t - prefs[1].lastDigestSent[digestType][1] >= PeriodHours(digestType)

\* The users of the alerts a digest query returns: timestamp >= t - hours.
DigestUsers(period, t) ==
  { a.userId : a \in { b \in workerAlerts :
                          b.timestamp >= t - PeriodHours(period) } }

MaxDigestOps == 4

DigestOthersUnchanged ==
  /\ UNCHANGED <<platforms, pubIdx, results, pubPc, clientPlan, postStatus>>
  /\ UNCHANGED queueVars
  /\ UNCHANGED <<retryVars, rateVars, alertVars, schedVars>>

\* An alert of a user is stored in collection alerts.
StoreAlert ==
  /\ digestOps < MaxDigestOps /\ digestOps' = digestOps + 1
  /\ \E u \in Users :
       workerAlerts' = workerAlerts \cup {[userId |-> u, timestamp |-> now]}
  /\ UNCHANGED <<now, preferences, digestCalls, email_queue>>
  /\ DigestOthersUnchanged

\* An hour or a day passes between two runs of processQueue.
WorkerSleeps ==
  /\ digestOps < MaxDigestOps /\ digestOps' = digestOps + 1
  /\ \E h \in {1, 24} : now' = now + h
  /\ UNCHANGED <<preferences, workerAlerts, digestCalls, email_queue>>
  /\ DigestOthersUnchanged

\* processDigestNotifications: the two getDocs complete (or one throws and
\* processQueue logs it); createDigestNotification groups each result by
\* user and queueDigestEmail calls addDoc once per user and period, each
\* call completing or throwing into its catch.
ProcessDigestNotifications ==
  /\ digestOps < MaxDigestOps /\ digestOps' = digestOps + 1
  /\ \/ LET calls == { [userId |-> u, period |-> p, at |-> now,
                         run |-> digestOps] :
                          u \in Users, p \in Periods }
             made == { c \in calls : c.userId \in DigestUsers(c.period, now) }
         IN /\ digestCalls' = digestCalls \cup made
            /\ \E stored \in SUBSET made :
                 email_queue' = email_queue \cup stored
     \/ UNCHANGED <<digestCalls, email_queue>>
  /\ UNCHANGED <<now, preferences, workerAlerts>>
  /\ DigestOthersUnchanged

InitDigest ==
  /\ now = 1
  /\ preferences \in [Users -> PreferenceDocs]
  /\ workerAlerts = {} /\ digestCalls = {} /\ email_queue = {}
  /\ digestOps = 0
  /\ QueueIdle
  /\ platforms = <<>> /\ pubIdx = 1
  /\ results = [success |-> <<>>, failed |-> <<>>]
  /\ pubPc = "idle" /\ clientPlan = [p \in Platforms |-> "ok"]
  /\ postStatus = "scheduled"
  /\ RetryIdle /\ RateIdle /\ AlertIdle /\ SchedIdle

NextDigest ==
  \/ StoreAlert
  \/ WorkerSleeps
  \/ ProcessDigestNotifications

SpecDigest == InitDigest /\ [][NextDigest]_vars

(***************************************************************************)
(* EmailWorker: processQueue passes over the alert-notification documents  *)
(* of email_queue.  startWorker runs one pass at once and starts a further *)
(* one on every interval tick, whether or not the earlier pass has         *)
(* returned.  Each await of a pass and of its processEmail calls is one    *)
(* action.  EmailAnalytics.trackDelivery and trackFailure catch their own  *)
(* errors and write to another collection: they are part of the step that  *)
(* follows them.                                                           *)
(***************************************************************************)
MAX_RETRIES == 3

BATCH_SIZE == 50

MaxPasses == 3

\* The documents a producer leaves in email_queue: queueEmailNotification
\* writes status 'pending' and no retryCount; interface QueuedEmail allows a
\* document that carries retryCount.
QueuedDocs ==
  { [status |-> "pending", retryCount |-> rc] : rc \in {<<>>, <<0>>} }

\* `email.retryCount || 0`
RetryCountOr0(rc) == IF rc = <<>> THEN 0 ELSE rc[1]

\* The query of processRegularNotifications: status == 'pending' and
\* retryCount < MAX_RETRIES (template == 'alert-notification' holds for
\* every document of emailDocs).  An inequality filter matches only
\* documents that have the field.
PendingQuery(docs) ==
  { e \in Emails : /\ docs[e] # <<>>
                   /\ docs[e][1].status = "pending"
                   /\ docs[e][1].retryCount # <<>>
                   /\ docs[e][1].retryCount[1] < MAX_RETRIES }

\* snapshot.docs.slice(0, BATCH_SIZE), the order of the documents left open.
Batches(found) ==
  { b \in SUBSET found : Cardinality(b) = Min(Cardinality(found), BATCH_SIZE) }

WorkerOthersUnchanged ==
  /\ UNCHANGED <<now, platforms, pubIdx, results, pubPc, clientPlan,
                 postStatus>>
  /\ UNCHANGED <<preferences, workerAlerts, digestCalls, email_queue,
                 digestOps, cronVars>>
  /\ UNCHANGED <<retryVars, rateVars, alertVars, schedVars>>

SetJob(p, e, job) ==
  wPasses' = [wPasses EXCEPT ![p].jobs[e] = job]

ProcessEmail_Catch(p, e) ==
  SetJob(p, e, [wPasses[p].jobs[e] EXCEPT !.pc = "markFailed"])

\* queueEmailNotification, digestFrequency 'immediate': setDoc at
\* `${alert.id}_${userId}` completes (a throw is logged and changes nothing).
QueueEmailNotification ==
  /\ \E e \in Emails :
       /\ emailDocs[e] = <<>>
       /\ emailDocs' = [emailDocs EXCEPT
                          ![e] = <<[status |-> "pending", retryCount |-> <<>>]>>]
  /\ UNCHANGED <<wPasses, sendMailCalls, passCount>>
  /\ WorkerOthersUnchanged

\* startWorker's initial call or an interval tick calls processQueue.
ProcessQueue ==
  /\ passCount < MaxPasses /\ passCount' = passCount + 1
  /\ \E p \in Passes :
       /\ wPasses[p].pc = "idle"
       /\ wPasses' = [wPasses EXCEPT ![p].pc = "getDocs"]
  /\ UNCHANGED <<emailDocs, sendMailCalls>>
  /\ WorkerOthersUnchanged

\* `await getDocs(q)` of processRegularNotifications completes and one
\* processEmail call per email of the batch starts; or it throws and
\* processQueue logs the error.
ProcessRegularNotifications ==
  /\ \E p \in Passes :
       /\ wPasses[p].pc = "getDocs"
       /\ \/ \E b \in Batches(PendingQuery(emailDocs)) :
               wPasses' = [wPasses EXCEPT
                 ![p] = [pc |-> "emails",
                         jobs |-> [e \in Emails |->
                            IF e \in b
                            THEN [pc |-> "markProcessing",
                                  retryCount |-> emailDocs[e][1].retryCount]
                            ELSE IdleJob]]]
          \/ wPasses' = [wPasses EXCEPT ![p] = IdlePass]
  /\ UNCHANGED <<emailDocs, sendMailCalls, passCount>>
  /\ WorkerOthersUnchanged

\* processEmail: updateDoc {status: 'processing'} completes or throws.
MarkProcessing ==
  /\ \E p \in Passes, e \in Emails :
       /\ wPasses[p].jobs[e].pc = "markProcessing"
       /\ \/ /\ emailDocs' = [emailDocs EXCEPT ![e][1].status = "processing"]
             /\ SetJob(p, e, [wPasses[p].jobs[e] EXCEPT !.pc = "sendMail"])
          \/ /\ ProcessEmail_Catch(p, e)
             /\ UNCHANGED emailDocs
  /\ UNCHANGED <<sendMailCalls, passCount>>
  /\ WorkerOthersUnchanged

\* processEmail: transporter.sendMail is called and resolves or rejects.
SendMail ==
  /\ \E p \in Passes, e \in Emails, ok \in BOOLEAN :
       /\ wPasses[p].jobs[e].pc = "sendMail"
       /\ sendMailCalls' = Append(sendMailCalls,
                                  [email |-> e, pass |-> p, ok |-> ok])
       /\ IF ok
          THEN SetJob(p, e, [wPasses[p].jobs[e] EXCEPT !.pc = "markSent"])
          ELSE ProcessEmail_Catch(p, e)
  /\ UNCHANGED <<emailDocs, passCount>>
  /\ WorkerOthersUnchanged

\* processEmail: after trackDelivery, updateDoc {status: 'sent'} completes
\* or throws.
MarkSent ==
  /\ \E p \in Passes, e \in Emails :
       /\ wPasses[p].jobs[e].pc = "markSent"
       /\ \/ /\ emailDocs' = [emailDocs EXCEPT ![e][1].status = "sent"]
             /\ SetJob(p, e, [wPasses[p].jobs[e] EXCEPT !.pc = "done"])
          \/ /\ ProcessEmail_Catch(p, e)
             /\ UNCHANGED emailDocs
  /\ UNCHANGED <<sendMailCalls, passCount>>
  /\ WorkerOthersUnchanged

\* processEmail's catch: after trackFailure, updateDoc {status: 'failed',
\* retryCount: (email.retryCount || 0) + 1} completes, or throws and the
\* call rejects.
MarkFailed ==
  /\ \E p \in Passes, e \in Emails :
       /\ wPasses[p].jobs[e].pc = "markFailed"
       /\ SetJob(p, e, [wPasses[p].jobs[e] EXCEPT !.pc = "done"])
       /\ \/ emailDocs' = [emailDocs EXCEPT
               ![e] = <<[status |-> "failed",
                         retryCount |->
                           <<RetryCountOr0(wPasses[p].jobs[e].retryCount) + 1>>]>>]
          \/ UNCHANGED emailDocs
  /\ UNCHANGED <<sendMailCalls, passCount>>
  /\ WorkerOthersUnchanged

\* Every processEmail call of the pass has settled: the pass is over.
PassReturns ==
  /\ \E p \in Passes :
       /\ wPasses[p].pc = "emails"
       /\ \A e \in Emails : wPasses[p].jobs[e].pc \in {"none", "done"}
       /\ wPasses' = [wPasses EXCEPT ![p] = IdlePass]
  /\ UNCHANGED <<emailDocs, sendMailCalls, passCount>>
  /\ WorkerOthersUnchanged

InitWorker ==
  /\ now = 0
  /\ emailDocs \in [Emails -> {<<>>} \cup { <<d>> : d \in QueuedDocs }]
  /\ wPasses = [p \in Passes |-> IdlePass]
  /\ sendMailCalls = <<>> /\ passCount = 0
  /\ CronIdle
  /\ preferences = [u \in Users |-> <<>>]
  /\ workerAlerts = {} /\ digestCalls = {} /\ email_queue = {}
  /\ digestOps = 0
  /\ platforms = <<>> /\ pubIdx = 1
  /\ results = [success |-> <<>>, failed |-> <<>>]
  /\ pubPc = "idle" /\ clientPlan = [p \in Platforms |-> "ok"]
  /\ postStatus = "scheduled"
  /\ RetryIdle /\ RateIdle /\ AlertIdle /\ SchedIdle

NextWorker ==
  \/ QueueEmailNotification
  \/ ProcessQueue
  \/ ProcessRegularNotifications
  \/ MarkProcessing
  \/ SendMail
  \/ MarkSent
  \/ MarkFailed
  \/ PassReturns

SpecWorker == InitWorker /\ [][NextWorker]_vars

(***************************************************************************)
(* publishScheduledPosts: the scheduled function runs every 5 minutes; a   *)
(* run queries the posts due in its window and calls publishPost for each  *)
(* of them.  Instants are minutes.  A run that has not returned does not   *)
(* keep the scheduler from starting the next one.                          *)
(***************************************************************************)
CronEvery == 5

MaxCronNow == 10

\* The scheduledFor instants of the posts: inside the first window, on the
\* instant two consecutive windows share, inside the second window.
ScheduledFors == {CronEvery - 1, CronEvery, CronEvery + 1}

Outcomes == {"all", "some", "none"}

\* The query of a run: status == 'scheduled' and from <= scheduledFor <= to.
DuePosts(docs, from, to) ==
  { p \in Posts : /\ docs[p].status = "scheduled"
                  /\ docs[p].scheduledFor >= from
                  /\ docs[p].scheduledFor <= to }

\* `results.failed.length === 0 ? 'published' : 'partially_published'`
PublishedStatus(outcome) ==
  IF outcome = "all" THEN "published" ELSE "partially_published"

CronOthersUnchanged ==
  /\ UNCHANGED <<platforms, pubIdx, results, pubPc, clientPlan, postStatus>>
  /\ UNCHANGED <<preferences, workerAlerts, digestCalls, email_queue,
                 digestOps, workerVars>>
  /\ UNCHANGED <<retryVars, rateVars, alertVars, schedVars>>

\* A minute passes.
CronTick ==
  /\ now < MaxCronNow /\ now' = now + 1
  /\ UNCHANGED cronVars
  /\ CronOthersUnchanged

\* The scheduler starts a run: now = new Date(), fiveMinutesAgo = now - 5 min.
PublishScheduledPosts ==
  /\ now % CronEvery = 0 /\ lastCronAt # now
  /\ lastCronAt' = now
  /\ \E r \in CronSlots :
       /\ cronRuns[r].pc = "idle"
       /\ cronRuns' = [cronRuns EXCEPT
            ![r] = [IdleRun EXCEPT !.pc = "getDocs",
                                   !.from = now - CronEvery, !.to = now]]
  /\ UNCHANGED <<now, cronPosts, publishLog>>
  /\ CronOthersUnchanged

\* `await getDocs(q)` completes and forEach starts publishPost for every
\* document of the snapshot; or it throws and the run rethrows.
CronGetDocs ==
  /\ \E r \in CronSlots :
       /\ cronRuns[r].pc = "getDocs"
       /\ \/ cronRuns' = [cronRuns EXCEPT
               ![r].pc = "publishing",
               ![r].jobs = [p \in Posts |->
                  IF p \in DuePosts(cronPosts, cronRuns[r].from, cronRuns[r].to)
                  THEN [pc |-> "publish", status |-> "none"]
                  ELSE IdleCronJob]]
          \/ cronRuns' = [cronRuns EXCEPT ![r] = IdleRun]
  /\ UNCHANGED <<now, cronPosts, publishLog, lastCronAt>>
  /\ CronOthersUnchanged

\* publishPost: the loop over the platforms has run; every platform, some
\* or none of them took the post (a failure is caught per platform).
CronPublishPost ==
  /\ \E r \in CronSlots, p \in Posts, o \in Outcomes :
       /\ cronRuns[r].jobs[p].pc = "publish"
       /\ publishLog' = Append(publishLog,
                               [post |-> p, run |-> cronRuns[r].to,
                                outcome |-> o])
       /\ cronRuns' = [cronRuns EXCEPT
            ![r].jobs[p] = [pc |-> "updateDoc", status |-> PublishedStatus(o)]]
  /\ UNCHANGED <<now, cronPosts, lastCronAt>>
  /\ CronOthersUnchanged

\* publishPost: updateDoc {status, publishResults, publishedAt} completes,
\* or throws and Promise.allSettled records the rejection.
CronUpdateDoc ==
  /\ \E r \in CronSlots, p \in Posts :
       /\ cronRuns[r].jobs[p].pc = "updateDoc"
       /\ cronRuns' = [cronRuns EXCEPT ![r].jobs[p].pc = "done"]
       /\ \/ cronPosts' = [cronPosts EXCEPT
               ![p].status = cronRuns[r].jobs[p].status]
          \/ UNCHANGED cronPosts
  /\ UNCHANGED <<now, publishLog, lastCronAt>>
  /\ CronOthersUnchanged

\* Promise.allSettled has settled: the run logs the counts and returns.
CronReturns ==
  /\ \E r \in CronSlots :
       /\ cronRuns[r].pc = "publishing"
       /\ \A p \in Posts : cronRuns[r].jobs[p].pc \in {"none", "done"}
       /\ cronRuns' = [cronRuns EXCEPT ![r] = IdleRun]
  /\ UNCHANGED <<now, cronPosts, publishLog, lastCronAt>>
  /\ CronOthersUnchanged

InitCron ==
  /\ now = 0
  /\ cronPosts \in [Posts -> { [status |-> "scheduled", scheduledFor |-> s] :
                                 s \in ScheduledFors }]
  /\ cronRuns = [r \in CronSlots |-> IdleRun]
  /\ publishLog = <<>> /\ lastCronAt = -1
  /\ WorkerIdle
  /\ preferences = [u \in Users |-> <<>>]
  /\ workerAlerts = {} /\ digestCalls = {} /\ email_queue = {}
  /\ digestOps = 0
  /\ platforms = <<>> /\ pubIdx = 1
  /\ results = [success |-> <<>>, failed |-> <<>>]
  /\ pubPc = "idle" /\ clientPlan = [p \in Platforms |-> "ok"]
  /\ postStatus = "scheduled"
  /\ RetryIdle /\ RateIdle /\ AlertIdle /\ SchedIdle

NextCron ==
  \/ CronTick
  \/ PublishScheduledPosts
  \/ CronGetDocs
  \/ CronPublishPost
  \/ CronUpdateDoc
  \/ CronReturns

SpecCron == InitCron /\ [][NextCron]_vars

(***************************************************************************)
(* Claims on RetryManager, checked under SpecRetry.                        *)
(***************************************************************************)
RetryDone == retryPc \in {"returned", "thrown"}

\* C1: one call of retryOperation invokes the operation at most maxAttempts
\* times for its platform: facebook 5, linkedin 4, instagram and twitter 3.
C1_AtMostMaxAttempts ==
  /\ platform = "facebook"  => opCalls <= 5
  /\ platform = "linkedin"  => opCalls <= 4
  /\ platform = "instagram" => opCalls <= 3
  /\ platform = "twitter"   => opCalls <= 3

C1_Witness ==
  /\ retryPc = "thrown" /\ platform = "facebook" /\ opCalls = 5
  /\ Len(opLog) = 5

\* C2: an attempt that fails with a non-retryable error is the last
\* invocation of the call; if it is the first attempt, the operation is
\* invoked exactly once.
C2_NonRetryableStops ==
  \A i \in 1..Len(opLog) :
    (opLog[i] # <<>> /\ ~isRetryableError(opLog[i][1], platform))
      => /\ opCalls = i
         /\ Len(opLog) = i
         /\ retryPc \in {"getDoc", "updateDoc", "thrown"}

C2_Witness ==
  /\ retryPc = "thrown" /\ platform = "facebook" /\ opCalls = 1
  /\ opLog # <<>> /\ opLog[1] # <<>>
  /\ ~isRetryableError(opLog[1][1], platform)

\* The delays of the default policy {1000, 2, 30000}, by attempt number.
ExpectedDelays == <<1000, 2000, 4000, 8000, 16000, 30000, 30000>>

\* C3: after failed retryable attempt k the call sleeps
\* min(initialDelay * backoffFactor^(k-1), maxDelay) before attempt k+1:
\* 1000, 2000, 4000, ... for {1000, 2, 30000}, never more than maxDelay.
C3_BackoffDelays ==
  /\ \A k \in 1..Len(delays) :
       /\ delays[k] = ExpectedDelays[k]
       /\ delays[k] <= (IF platform = "instagram" THEN 60000 ELSE 30000)
  /\ retryPc = "delay" => Len(delays) = attempt
  /\ retryPc = "operation" => Len(delays) = attempt - 1
  /\ \A k \in 1..Len(ExpectedDelays) :
       getNextDelay(k, DEFAULT_RETRY_CONFIG) = ExpectedDelays[k]

C3_Witness ==
  /\ retryPc = "operation" /\ attempt = 5
  /\ delays = <<1000, 2000, 4000, 8000>>
  /\ now = 15000

\* The entries of the document that this call has appended.
NewRetryLogs == SelectSeq(postDoc.retryLogs, LAMBDA e : e # PriorEntry)

\* The number of failed invocations so far.
FailedAttempts == Cardinality({i \in 1..Len(opLog) : opLog[i] # <<>>})

C11_RaisesLastError ==
  (RetryDone /\ opLog # <<>>) =>
     LET last == opLog[Len(opLog)] IN
     /\ retryResult # <<>>
     /\ last # <<>> => /\ retryPc = "thrown"
                       /\ retryResult[1].kind = "throw"
                       /\ retryResult[1].error = last[1]
     /\ last = <<>> => /\ retryPc = "returned"
                       /\ retryResult[1].kind = "value"
     /\ retryPc = "thrown" =>
          \/ ~isRetryableError(last[1], platform)
          \/ Len(opLog) = PLATFORM_RETRY_CONFIGS[platform].maxAttempts

C11_Witness ==
  /\ retryPc = "thrown" /\ platform = "linkedin" /\ opCalls = 4
  /\ retryResult # <<>> /\ retryResult[1].kind = "throw"
  /\ retryResult[1].error = opLog[4][1]
  /\ isRetryableError(opLog[4][1], platform)
  /\ opLog[4][1] # opLog[3][1]

\* The settlement of a call whose invocations had the outcomes `log`, as
\* read off the outcomes alone: the call is over at a resolved invocation,
\* at a non-retryable failure and at failure number maxAttempts.
Settled(log, p) ==
  /\ log # <<>>
  /\ LET last == log[Len(log)] IN
     \/ last = <<>>
     \/ ~isRetryableError(last[1], p)
     \/ Len(log) = PLATFORM_RETRY_CONFIGS[p].maxAttempts

\* C12: a store failure inside logRetryAttempt never aborts or alters the
\* retry flow: in every run, with or without such a failure, the number of
\* invocations and the result are those the outcomes of the invocations
\* alone determine.
C12_LogFailureHarmless ==
  (platform \in Platforms /\ retryPc # "idle") =>
     /\ RetryDone => Settled(opLog, platform)
     /\ retryPc \in {"operation", "delay"} => ~Settled(opLog, platform)
     /\ \A i \in 1..(Len(opLog) - 1) :
          /\ opLog[i] # <<>>
          /\ isRetryableError(opLog[i][1], platform)
     /\ opCalls = Len(opLog) + (IF retryPc = "operation" THEN 1 ELSE 0)
     /\ RetryDone =>
          IF opLog[Len(opLog)] = <<>>
          THEN retryResult = << [kind |-> "value"] >>
          ELSE retryResult = << [kind |-> "throw",
                                 error |-> opLog[Len(opLog)][1],
                                 platform |-> platform] >>

C12_Witness ==
  /\ storeFault /\ retryPc = "returned" /\ opCalls = 3
  /\ postDoc.exists /\ NewRetryLogs = <<>>

RetryableStatus == {408, 429, 500, 502, 503, 504}
RetryableSubstrings ==
  [facebook |-> {"temporary", "rate limit"},
   instagram |-> {"rate limit", "media processing"},
   twitter |-> {"rate limit", "server error"},
   linkedin |-> {"rate limit", "processing"}]

\* The classification by precedence: flag, else status code, else message.
ClassifiedRetryable(error, p) ==
  CASE error.isRetryable # "undefined" -> error.isRetryable = "true"
    [] error.isRetryable = "undefined" /\ error.statusCode # 0 ->
         error.statusCode \in RetryableStatus
    [] OTHER -> \E sub \in RetryableSubstrings[p] : Includes(error.message, sub)

\* C26: a failed attempt before the last allowed one is followed by
\* another invocation exactly when its error is retryable by the
\* precedence flag, else status code, else platform message substring,
\* else not: so {isRetryable: false, 503} and {400, 'rate limit'} end the
\* call.
C26_ClassificationPrecedence ==
  (platform \in Platforms) =>
    \A i \in 1..Len(opLog) :
      (opLog[i] # <<>> /\ i < PLATFORM_RETRY_CONFIGS[platform].maxAttempts) =>
         /\ i < Len(opLog) => ClassifiedRetryable(opLog[i][1], platform)
         /\ (i = Len(opLog) /\ retryPc \in {"delay", "operation"}) =>
              ClassifiedRetryable(opLog[i][1], platform)
         /\ (i = Len(opLog) /\ retryPc = "thrown") =>
              ~ClassifiedRetryable(opLog[i][1], platform)

\* Retried on the flag despite status 400, retried on the message, then
\* ended by isRetryable = false despite status 503.
C26_Witness ==
  /\ retryPc = "thrown" /\ platform = "facebook" /\ opCalls = 3
  /\ Len(opLog) = 3
  /\ opLog[1] = << [isRetryable |-> "true", statusCode |-> 400,
                    message |-> "bad request"] >>
  /\ opLog[2] = << [isRetryable |-> "undefined", statusCode |-> 0,
                    message |-> "temporary"] >>
  /\ opLog[3] = << [isRetryable |-> "false", statusCode |-> 503,
                    message |-> "server error"] >>

RateHealthy == \A i \in 1..Len(rlCalls) : rlCalls[i].fault = "none"

\* The start of the fixed window call i falls in, from the call instants.
RECURSIVE WindowStartOf(_)
WindowStartOf(i) ==
  IF i = 1 THEN rlCalls[1].t
  ELSE LET ws == WindowStartOf(i - 1) IN
       IF rlCalls[i].t - ws > rlConfig.windowSize THEN rlCalls[i].t ELSE ws

\* The rank of call i among the calls of its window.
PosInWindow(i) ==
  Cardinality({j \in 1..i : WindowStartOf(j) = WindowStartOf(i)})

\* C4: sequential calls on one key with fixed maxRequests = M and
\* windowSize = W on a healthy store: the first M calls within W of the
\* window start are not limited, every further call in that window is
\* limited, and the first call more than W after the window start is not
\* limited and starts a new window with count 1.
C4_FixedWindow ==
  (RateHealthy /\ rlConfig.maxRequests >= 1 /\ rlConfig.windowSize >= 1) =>
     /\ \A i \in 1..Len(rlCalls) :
          rlCalls[i].limited <=> PosInWindow(i) > rlConfig.maxRequests
     /\ rlCalls # <<>> =>
          LET n == Len(rlCalls)
              rec == rate_limits[rlConfig.type]
          IN /\ rec # <<>>
             /\ rec[1].windowStart = WindowStartOf(n)
             /\ rec[1].count = Min(PosInWindow(n), rlConfig.maxRequests)
             /\ PosInWindow(n) = 1 =>
                  rec[1] = [count |-> 1, windowStart |-> rlCalls[n].t,
                            lastUpdated |-> rlCalls[n].t]

C4_Witness ==
  /\ RateHealthy /\ rlConfig.maxRequests = 2 /\ rlConfig.windowSize = 1
  /\ Len(rlCalls) = 4
  /\ ~rlCalls[1].limited /\ ~rlCalls[2].limited
  /\ rlCalls[3].limited /\ rlCalls[3].t = rlCalls[1].t + 1
  /\ ~rlCalls[4].limited /\ rlCalls[4].t = rlCalls[1].t + 2
  /\ rate_limits[rlConfig.type][1].count = 1

\* C29: for the sequential calls of one key, the stored count never
\* exceeds maxRequests, does not decrease while windowStart stays, and a
\* call that returns limited leaves the stored record as it was.
C29_CountMonotoneBounded ==
  /\ [](rate_limits[rlConfig.type] # <<>> =>
          rate_limits[rlConfig.type][1].count
            <= EffectiveLimits(rlConfig).maxRequests)
  /\ [][ (rate_limits[rlConfig.type] # <<>>) =>
           /\ rate_limits'[rlConfig.type] # <<>>
           /\ (rate_limits'[rlConfig.type][1].windowStart
                 = rate_limits[rlConfig.type][1].windowStart) =>
                rate_limits'[rlConfig.type][1].count
                  >= rate_limits[rlConfig.type][1].count ]_vars
  /\ [][ (Len(rlCalls') > Len(rlCalls) /\ rlCalls'[Len(rlCalls')].limited)
           => rate_limits' = rate_limits ]_vars

\* With maxRequests = 2: two admitted calls, then a limited one that found
\* and left the count at 2.
C29_Witness ==
  /\ RateHealthy /\ rlConfig.maxRequests = 2 /\ rlConfig.windowSize = 2
  /\ Len(rlCalls) = 3 /\ rlCalls[3].limited
  /\ rate_limits[rlConfig.type] # <<>>
  /\ rate_limits[rlConfig.type][1].count = 2
  /\ rate_limits[rlConfig.type][1].lastUpdated < rlCalls[3].t

\* C37: getRateLimitStatus reports isLimited = true exactly when an
\* isRateLimited call with the category defaults on the same key in the
\* same state returns true, also when the store read fails.
C37_StatusAgrees ==
  rlStatus # <<>> => (rlStatus[1].status.isLimited <=> rlStatus[1].would)

\* C31: for any interleaving of concurrent isRateLimited calls on one key,
\* the calls answered not-limited in the stored window are at most
\* maxRequests and the stored count is their number.
C31_NoLostUpdate ==
  LET rec == rate_limits[rlConfig.type]
      admitted == { i \in 1..Len(rlCalls) :
                      ~rlCalls[i].limited /\ rlCalls[i].t >= rec[1].windowStart }
  IN rec # <<>> =>
       /\ Cardinality(admitted) <= EffectiveLimits(rlConfig).maxRequests
       /\ rec[1].count = Cardinality(admitted)

\* C5: a call during which the store read or write throws returns false
\* (not limited), whatever the stored count is.
C5_FailOpen ==
  \A i \in 1..Len(rlCalls) :
    rlCalls[i].fault # "none" => ~rlCalls[i].limited

C5_Witness ==
  /\ rlConfig.maxRequests = 1 /\ rlConfig.windowSize = 2
  /\ Len(rlCalls) = 3
  /\ rlCalls[2].limited
  /\ rlCalls[3].fault = "read" /\ ~rlCalls[3].limited
  /\ rlCalls[3].t = rlCalls[2].t
  /\ rate_limits[rlConfig.type][1].count >= rlConfig.maxRequests

(***************************************************************************)
(* Claims on EmailMonitor, checked under SpecAlert.                        *)
(***************************************************************************)
NoneResolved == \A i \in 1..Len(alerts) : alerts[i].status = "active"

\* C6: for breach evaluations of one (userId, type) with no resolveAlert in
\* between, no two persisted alerts of that type have timestamps less than
\* cooldown minutes apart.
C6_CooldownSpacing ==
  (NoneResolved /\ alertConfigDoc # <<>>) =>
    \A i, j \in 1..Len(alerts) :
      (i < j /\ alerts[i].type = alerts[j].type) =>
        alerts[j].timestamp - alerts[i].timestamp
          >= alertConfigDoc[1].cooldown * 60 * 1000

\* C14: when the email dispatch of an alert throws and a Slack webhook is
\* configured, createAlert goes on to the Slack channel (its limiter check
\* and, when not limited, the webhook call) for the same alert.
C14_SlackAfterEmailFailure ==
  [][ (alertPc = "sendEmailAlert" /\ alertPc' # "sendEmailAlert"
       /\ SlackConfigured(alertCall[1].config))
      => alertPc' = "slackLimit" ]_vars

\* The positions of createAlert after the alert has been stored.
DispatchPcs == {"emailLimit", "sendEmailAlert", "slackLimit", "fetch"}

\* C15: the alert is stored with status active before any channel dispatch
\* starts (while the channels are worked on, the alert of this evaluation
\* is in the collection), every channel message belongs to a stored alert,
\* and no step of createAlert, a failed dispatch included, removes or
\* changes a stored alert: only resolveAlert changes its status.
C15_PersistBeforeDispatch ==
  /\ [](alertPc \in DispatchPcs =>
          \E i \in 1..Len(alerts) :
             /\ alerts[i].type = alertCall[1].type
             /\ alerts[i].timestamp = now)
  /\ [](\A k \in 1..Len(sent) :
          \E i \in 1..Len(alerts) :
             /\ alerts[i].type = sent[k].type
             /\ alerts[i].timestamp = sent[k].at)
  /\ [][ /\ Len(alerts') >= Len(alerts)
         /\ Len(alerts') > Len(alerts) =>
              /\ alertPc = "setDoc"
              /\ alerts'[Len(alerts')].status = "active"
         /\ \A i \in 1..Len(alerts) :
              /\ alerts'[i].type = alerts[i].type
              /\ alerts'[i].timestamp = alerts[i].timestamp
              /\ alerts'[i].status # alerts[i].status =>
                   (alertPc' = alertPc /\ resolves' = resolves + 1) ]_vars

C15_Witness ==
  /\ alertPc = "idle" /\ breaches = 1 /\ resolves = 0
  /\ Len(alerts) = PriorAlerts + 1 /\ alerts[Len(alerts)].status = "active"
  /\ rate_limits["email"] # <<>>
  /\ rate_limits["email"][1].count = PriorAlerts + 1
  /\ rate_limits["notification"] = <<>>
  /\ alertConfigDoc # <<>> /\ SlackConfigured(alertConfigDoc[1])
  /\ sent = <<>>

\* C25: whichever awaited call of an alert evaluation throws (the store,
\* the email notifier, the webhook; the limiter answers from its own
\* catch), createAlert does not reject: the catch block ends the
\* evaluation, and the monitor is idle again for the next evaluation.
C25_NeverRaises ==
  /\ [](alertPc # "rejected")
  /\ [][alertPc = "catch" => (alertPc' = "idle" /\ alertCall' = <<>>)]_vars
  /\ [][(alertPc' = "catch" /\ alertPc # "catch") =>
          alertPc \in {"getAlertConfig", "getDocs", "setDoc",
                       "sendEmailAlert", "fetch"}]_vars

\* A second evaluation of the run has thrown (the first one stored its
\* alert and then threw in the email dispatch).
C25_Witness ==
  /\ alertPc = "catch" /\ breaches = 2
  /\ Len(alerts) = PriorAlerts + 1
  /\ sent = <<>>

\* No active alert of the type is inside its cooldown: each alert of the
\* type is resolved, or its cooldown has elapsed.
NoFreshActive(type, config) ==
  \A i \in 1..Len(alerts) :
     (alerts[i].type = type /\ alerts[i].status = "active") =>
        now - alerts[i].timestamp >= config.cooldown * 60 * 1000

\* C27: an evaluation that finds every earlier alert of its type resolved
\* or past its cooldown is not suppressed; unless the alert limiter stops
\* it (or a call throws) it stores a new active alert as a record of its
\* own, the stored ones staying as they are.
C27_SuppressionEnds ==
  /\ [][ (alertPc = "getDocs" /\ alertPc' # "catch"
          /\ NoFreshActive(alertCall[1].type, alertCall[1].config))
         => alertPc' = "alertLimit" ]_vars
  /\ [][ (alertPc = "alertLimit" /\ alertWarns' = alertWarns)
         => alertPc' = "setDoc" ]_vars
  /\ [][ (alertPc = "setDoc" /\ alertPc' # "catch")
         => /\ Len(alerts') = Len(alerts) + 1
            /\ alerts'[Len(alerts')].type = alertCall[1].type
            /\ alerts'[Len(alerts')].status = "active"
            /\ alerts'[Len(alerts')].timestamp = now
            /\ \A i \in 1..Len(alerts) : alerts'[i] = alerts[i] ]_vars

\* An alert resolved inside its cooldown, and the alert of the next breach
\* of the type, stored inside that cooldown too.
C27_Witness ==
  /\ Len(alerts) = 2 /\ alertConfigDoc # <<>>
  /\ alerts[1].type = alerts[2].type
  /\ alerts[1].status = "resolved" /\ alerts[2].status = "active"
  /\ alerts[1].resolvedAt[1] - alerts[1].timestamp
       < alertConfigDoc[1].cooldown * 60 * 1000
  /\ alerts[2].timestamp - alerts[1].timestamp
       < alertConfigDoc[1].cooldown * 60 * 1000
  /\ ~alerts[2].failedOpen

\* The alert limit of createAlert.
AlertMax == 10

\* The stored alerts of the current alert window whose evaluation had a
\* healthy limiter call.
AlertsInWindow ==
  LET rec == rate_limits["alert"] IN
  { i \in 1..Len(alerts) :
      /\ rec # <<>>
      /\ alerts[i].timestamp >= rec[1].windowStart
      /\ ~alerts[i].failedOpen }

C17_ResolveIdempotent ==
  [][ \A i \in 1..Len(alerts) :
        alerts[i].status = "resolved" => alerts'[i] = alerts[i] ]_vars

(***************************************************************************)
(* Claims on ReportScheduler.calculateNextRun, checked under SpecSched.    *)
(***************************************************************************)
\* C7: for every schedule with valid fields and every calculation instant,
\* calculateNextRun returns an instant strictly later than that instant.
C7_NextRunInFuture ==
  nextRun # <<>> => nextRun[1] > calcAt[1]

C7_Witness ==
  /\ nextRun # <<>>
  /\ schedule.frequency = "daily" /\ schedule.time = "09:30"
  /\ MinuteOf(calcAt[1]) = 570
  /\ nextRun[1] = calcAt[1] + MinutesPerDay

\* C8: for a weekly schedule with dayOfWeek d, calculateNextRun returns the
\* earliest instant after now on weekday d at the configured HH:mm, at most
\* 7 days ahead; on a Monday with d = 3 it is the Wednesday 2 days ahead.
C8_WeeklyNextOccurrence ==
  (nextRun # <<>> /\ schedule.frequency = "weekly") =>
     /\ nextRun[1] > calcAt[1]
     /\ nextRun[1] - calcAt[1] <= 7 * MinutesPerDay
     /\ DayOf(nextRun[1]) % 7 = schedule.dayOfWeek
     /\ MinuteOf(nextRun[1]) = Hours(schedule.time) * 60 + Minutes(schedule.time)
     /\ (DayOf(calcAt[1]) % 7 = 1 /\ schedule.dayOfWeek = 3) =>
          DayOf(nextRun[1]) = DayOf(calcAt[1]) + 2

C8_Witness ==
  /\ nextRun # <<>> /\ schedule.frequency = "weekly"
  /\ schedule.dayOfWeek = 3 /\ schedule.time = "09:30"
  /\ calcAt[1] = 1 * MinutesPerDay + 571
  /\ nextRun[1] = 3 * MinutesPerDay + 570

\* Day d of month m at the HH:mm of `time`, by calendar arithmetic (d may
\* be past the end of the month).
MonthlyAt(m, d, time) ==
  (MonthStart(m) + d - 1) * MinutesPerDay + Hours(time) * 60 + Minutes(time)

\* The month a monthly run calculated at t falls in: the month of t if its
\* day d at HH:mm is still after t, otherwise the following month.
MonthlyMonth(t, d, time) ==
  IF MonthlyAt(getMonth(t), d, time) > t THEN getMonth(t) ELSE getMonth(t) + 1

\* C22 (as amended): for a monthly schedule with dayOfMonth d, when the
\* month the run falls in (the current one if its day d at HH:mm is still
\* after now, otherwise the following one) has a day d, calculateNextRun
\* returns day d of that month at HH:mm.
C22_MonthlyWhenDayExists ==
  (nextRun # <<>> /\ schedule.frequency = "monthly") =>
     LET d == schedule.dayOfMonth
         m == MonthlyMonth(calcAt[1], d, schedule.time)
     IN d <= DaysInMonth(m) =>
          /\ nextRun[1] = MonthlyAt(m, d, schedule.time)
          /\ getDate(nextRun[1]) = d /\ getMonth(nextRun[1]) = m

\* Calculated on 31 January 2023 at 09:30 for day 15 at 09:30: 15 February.
C22_Witness ==
  /\ nextRun # <<>> /\ schedule.frequency = "monthly"
  /\ schedule.dayOfMonth = 15 /\ schedule.time = "09:30"
  /\ calcAt[1] = 30 * MinutesPerDay + 570
  /\ nextRun[1] = (31 + 14) * MinutesPerDay + 570

\* C22: for a monthly schedule with dayOfMonth d in 1..31 and any
\* calculation instant, calculateNextRun returns an instant on day-of-month
\* d, in the current month or in the following one.
C22_MonthlyDayOfMonth ==
  (nextRun # <<>> /\ schedule.frequency = "monthly") =>
     /\ getDate(nextRun[1]) = schedule.dayOfMonth
     /\ getMonth(nextRun[1]) \in {getMonth(calcAt[1]), getMonth(calcAt[1]) + 1}

\* C28: a calculateNextRun call on a weekly schedule, its dayOfWeek
\* missing or outside 0..6 included, comes to an end.
C28_WeeklyTerminates == <>(loopPc = "returned")

(***************************************************************************)
(* Claims on the ReportScheduler timers, checked under SpecTimer.          *)
(***************************************************************************)
\* Every fire so far happened at the instant its timer was set for.
FiredOnTime == \A i \in 1..Len(fired) : fired[i].at >= fired[i].target

C30_OneArmedTimer ==
  /\ Cardinality(timeouts) <= 1
  /\ \A tm \in timeouts : schedules = << tm.handle >>

\* initializeSchedules has re-armed the schedule that createSchedule had
\* armed: the second timer is pending, the first is gone.
C30_Witness ==
  /\ fired = <<>> /\ lastEdit = <<>> /\ loads = <<>> /\ lifeCount >= 1
  /\ \E tm \in timeouts : tm.handle = 2
  /\ schedules = << 2 >>

Range(seq) == { seq[i] : i \in 1..Len(seq) }

\* C9: after publishPost every requested platform is in exactly one of
\* results.success and results.failed, in success iff its publish
\* ultimately succeeded; a platform whose API fails terminally is in
\* failed, one whose API succeeds (at once or after 2 transient failures)
\* is in success.
C9_PerPlatformOutcome ==
  pubPc \in {"updateDoc", "returned", "rejected"} =>
    \A p \in Range(platforms) :
      LET inSuccess == p \in Range(results.success)
          inFailed == \E i \in 1..Len(results.failed) :
                        results.failed[i].platform = p
      IN /\ inSuccess # inFailed
         /\ inSuccess <=> clientPlan[p] \in {"ok", "okAfter2"}

(***************************************************************************)
(* Claims on overlapping createAlert calls, checked under SpecAlertConc.   *)
(***************************************************************************)
\* C32: when two breach evaluations of one user and type interleave at
\* their store calls, at most one active alert of that type is persisted
\* within the cooldown window.
C32_OneActiveAlertPerCooldown ==
  \A i, j \in 1..Len(alerts) :
     (/\ i < j
      /\ alerts[i].type = alerts[j].type
      /\ alerts[i].status = "active" /\ alerts[j].status = "active") =>
       alerts[j].timestamp - alerts[i].timestamp
         >= alertConfigDoc[1].cooldown * 60 * 1000

UserFields(s) ==
  [frequency |-> s.frequency, dayOfWeek |-> s.dayOfWeek,
   dayOfMonth |-> s.dayOfMonth, time |-> s.time, enabled |-> s.enabled,
   recipients |-> s.recipients]

GenerationFails(g) ==
  /\ g \in generations /\ g \notin generations'
  /\ \A h \in generations' : h.handle # g.handle
  /\ UNCHANGED reportSchedules

\* C36: when the generation or a delivery of a fire fails, a timer stays
\* armed for a run instant after that fire, and the schedule fires again
\* as long as the clock of the run goes on.
C36_ChainSurvivesFailure ==
  /\ [][ \A g \in generations :
           GenerationFails(g) =>
             \E tm \in timeouts' : tm.target > g.started ]_vars
  /\ \A n \in 1..(MaxFires - 1) :
       (Len(fired) = n) ~> (Len(fired) > n \/ advances = MaxAdvances)

\* A schedule with a recipient, whose every generation fails, has fired on
\* two consecutive days.
C36_Witness ==
  /\ Len(fired) = 2 /\ generations = {}
  /\ reportSchedules # <<>> /\ reportSchedules[1].recipients = 1
  /\ reportSchedules[1].lastRun = <<>>
  /\ fired[1].at >= fired[1].target
  /\ fired[2].target > fired[1].target /\ fired[2].at >= fired[2].target

SendFailed(e) ==
  /\ \E i \in DOMAIN sendMailCalls : sendMailCalls[i].email = e
  /\ \A i \in DOMAIN sendMailCalls :
       (sendMailCalls[i].email = e
        /\ \A j \in DOMAIN sendMailCalls :
             sendMailCalls[j].email = e => j <= i)
         => ~sendMailCalls[i].ok

====
